---------------------------- MODULE Spec2Model ----------------------------
(***************************************************************************)
(* A model of the markdown-rendering pipeline of copilot-chat-to-markdown  *)
(* (src/chat_converter).                                                   *)
(*                                                                         *)
(* Text is a sequence of characters; a character is a one-symbol string.   *)
(* A few fixed multi-character tokens the code only ever tests or emits as *)
(* a whole ("<details>", "</details>", "<a name=", "TI" for                *)
(* __TOOL_INVOCATION__, ...) are single symbols.  A document handed to a   *)
(* line-oriented function is the sequence of its lines, i.e. the value of  *)
(* text.split('\n'); '\n'.join(lines) is the same sequence read back.      *)
(* Python's 0-based indices are kept 1-based here.                         *)
(***************************************************************************)
EXTENDS Integers, Sequences, FiniteSets, TLC

VARIABLES
    b_pc,       \* balance_code_fences driver: "idle", "in", "once", "twice"
    b_in,       \* the document given to balance_code_fences (its lines)
    b_out1,     \* balance_code_fences(b_in)
    b_out2,     \* balance_code_fences(b_out1)
    j_pc,       \* smart_join_parts driver: "idle", "in", "done"
    j_parts,    \* the fragments given to smart_join_parts
    j_out,      \* smart_join_parts(j_parts)
    x_pc,       \* extract_text_from_response_part driver: "idle", "in", "done"
    x_part,     \* the response part given to the extractor
    x_res,      \* what the call did: [raises, v], v the value returned
    e_pc,       \* format_text_edit_group driver: "idle", "in", "done"
    e_data,     \* the textEditGroup record given to the renderer
    e_out,      \* format_text_edit_group(e_data)
    m_pc,       \* process_special_markers: "idle", "in", then the pass just
                \* made: "edits", "tools", "tasks", and "done" at the return
    m_ctx,      \* its arguments tool_call_results and tool_call_rounds
    m_before,   \* the text as the last pass found it
    m_text,     \* the local variable text
    t_pc,       \* format_tool_invocation_details driver: "idle", "in", "done"
    t_data,     \* the tool invocation record given to the renderer
    t_ctx,      \* its arguments tool_call_results and tool_call_rounds
    t_res,      \* what the call did: [raises, v], v the text returned
    p_pc,       \* parse_chat_log / parse_combined_chat_logs: "idle", "in",
                \* "request" at the top of the loop body, "response" at
                \* the call of process_special_markers, "done", "raised"
    p_fn,       \* which of the two functions runs
    p_data,     \* its argument: chat_data, or the files of file_paths
    p_requests, \* the local requests / all_requests
    p_boundaries,       \* the local file_boundaries
    p_i,        \* the loop counter i, from 1
    p_md_lines, \* the local md_lines
    p_model_display,    \* the local model_display, JNull while unassigned
    p_response_parts,   \* the local response_parts
    p_consolidated,     \* the local consolidated_response
    p_out,      \* the text returned
    c_pc,       \* format_message_text: "idle", "in", "joined" at the join of
                \* result_lines, "done" at the return
    c_text,     \* its argument text
    c_result,   \* the local text_result before the empty blocks are removed
    c_out       \* the text returned

bvars == <<b_pc, b_in, b_out1, b_out2>>
jvars == <<j_pc, j_parts, j_out>>
xvars == <<x_pc, x_part, x_res>>
evars == <<e_pc, e_data, e_out>>
mvars == <<m_pc, m_ctx, m_before, m_text>>
tvars == <<t_pc, t_data, t_ctx, t_res>>
pvars ==
    <<p_pc, p_fn, p_data, p_requests, p_boundaries, p_i, p_md_lines,
      p_model_display, p_response_parts, p_consolidated, p_out>>

cvars == <<c_pc, c_text, c_result, c_out>>

vars == <<bvars, jvars, xvars, evars, mvars, tvars, pvars, cvars>>

\* The components are pure functions of their arguments: a specification
\* drives one of them and leaves the others idle.
BIdle == b_pc = "idle" /\ b_in = <<>> /\ b_out1 = <<>> /\ b_out2 = <<>>
JIdle == j_pc = "idle" /\ j_parts = <<>> /\ j_out = <<>>

XIdle == x_pc = "idle" /\ x_part = <<>> /\ x_res = <<>>
EIdle == e_pc = "idle" /\ e_data = <<>> /\ e_out = <<>>
MIdle == m_pc = "idle" /\ m_ctx = <<>> /\ m_before = <<>> /\ m_text = <<>>
TIdle == t_pc = "idle" /\ t_data = <<>> /\ t_ctx = <<>> /\ t_res = <<>>
PIdle ==
    /\ p_pc = "idle" /\ p_fn = <<>> /\ p_data = <<>> /\ p_requests = <<>>
    /\ p_boundaries = <<>> /\ p_i = <<>> /\ p_md_lines = <<>> /\ p_model_display = <<>>
    /\ p_response_parts = <<>> /\ p_consolidated = <<>> /\ p_out = <<>>
CIdle == c_pc = "idle" /\ c_text = <<>> /\ c_result = <<>> /\ c_out = <<>>

NotB == <<jvars, xvars, evars, mvars, tvars, pvars, cvars>>
NotJ == <<bvars, xvars, evars, mvars, tvars, pvars, cvars>>
NotX == <<bvars, jvars, evars, mvars, tvars, pvars, cvars>>
NotE == <<bvars, jvars, xvars, mvars, tvars, pvars, cvars>>
NotM == <<bvars, jvars, xvars, evars, tvars, pvars, cvars>>
NotT == <<bvars, jvars, xvars, evars, mvars, pvars, cvars>>
NotP == <<bvars, jvars, xvars, evars, mvars, tvars, cvars>>
NotC == <<bvars, jvars, xvars, evars, mvars, tvars, pvars>>

-----------------------------------------------------------------------------
(* Bounds *)

\* longest document (in lines) given to the fence balancer
MaxLines == 4

\* most fragments given to the text joiner
MaxParts == 4

\* most edits in the records built from the alphabet of edits EEdits
MaxEdits == 6

\* deepest nesting of process_special_markers calls (a call for the text,
\* one for a tool result inside it, and so on) before the interpreter's
\* recursion limit ends the innermost one
MaxNesting == 3

\* most requests of a chat given to parse_chat_log
MaxRequests == 2

\* most files given to parse_combined_chat_logs
MaxFiles == 2

-----------------------------------------------------------------------------
(* Characters and Python's str helpers *)

\* the backtick character (written "BT": the lexer rejects a backtick literal)
BT == "BT"
BS == "\\"

\* str.isspace for the characters of the model
IsSpace(c) == c \in {" ", "\n"}

\* the class \w of the re module
IsWord(c) ==
    c \in {"a", "b", "c", "n", "x", "y", "p", "0", "1", "2", "3", "4", "5", "6", "7", "8", "9",
           "markdown", "python", "json", "text", "kind"}

\* n copies of c: c * n
Rep(c, n) == [k \in 1..n |-> c]

\* number of leading characters of s satisfying the class test
RECURSIVE LeadingSpaces(_)
LeadingSpaces(s) ==
    IF s = <<>> \/ ~IsSpace(Head(s)) THEN 0 ELSE 1 + LeadingSpaces(Tail(s))

RECURSIVE TrailingSpaces(_)
TrailingSpaces(s) ==
    IF s = <<>> \/ ~IsSpace(s[Len(s)]) THEN 0
    ELSE 1 + TrailingSpaces(SubSeq(s, 1, Len(s) - 1))

\* str.lstrip / str.rstrip / str.strip
lstrip(s) == SubSeq(s, LeadingSpaces(s) + 1, Len(s))
rstrip(s) == SubSeq(s, 1, Len(s) - TrailingSpaces(s))
strip(s) == rstrip(lstrip(s))

\* str.startswith / str.endswith
startswith(s, p) == Len(p) <= Len(s) /\ SubSeq(s, 1, Len(p)) = p
endswith(s, p) == Len(p) <= Len(s) /\ SubSeq(s, Len(s) - Len(p) + 1, Len(s)) = p

\* str.find, 1-based; 0 when sub does not occur in s
find(s, sub) ==
    LET hits == {k \in 1..(Len(s) - Len(sub) + 1) : SubSeq(s, k, k + Len(sub) - 1) = sub}
    IN IF hits = {} THEN 0 ELSE CHOOSE k \in hits : \A m \in hits : k <= m

\* sub in s
contains(s, sub) == find(s, sub) # 0

\* s.replace(old, new, 1)
replace1(s, old, new) ==
    LET k == find(s, old)
    IN IF k = 0 THEN s
       ELSE SubSeq(s, 1, k - 1) \o new \o SubSeq(s, k + Len(old), Len(s))

\* number of leading backticks
RECURSIVE LeadingTicks(_)
LeadingTicks(s) ==
    IF s = <<>> \/ Head(s) # BT THEN 0 ELSE 1 + LeadingTicks(Tail(s))

\* list.insert(j, x) with a 1-based j: x lands before the old element j
insert(l, j, x) == SubSeq(l, 1, j - 1) \o <<x>> \o SubSeq(l, j, Len(l))

-----------------------------------------------------------------------------
(* balance_code_fences *)

\* re.match(fence_pattern, stripped), fence_pattern being: 3 or more backticks,
\* then \w*, then \s*, anchored at both ends.  The backtick run takes every
\* leading backtick (a backtick is not \w), the rest must be word characters.
fence_pattern(stripped) ==
    LET n == LeadingTicks(stripped)
        rest == SubSeq(stripped, n + 1, Len(stripped))
    IN [ok |-> n >= 3 /\ \A k \in 1..Len(rest) : IsWord(rest[k]),
        count |-> n,
        lang |-> rest]

\* re.match of the pattern: one or more backticks, anchored at both ends
only_backticks(stripped) ==
    Len(stripped) >= 1 /\ \A k \in 1..Len(stripped) : stripped[k] = BT

\* One iteration of the scan loop on line st.i; st.i moves on by one.
ScanLine(st) ==
    LET line == st.lines[st.i]
        stripped == strip(line)
        m == fence_pattern(stripped)
        nxt == [st EXCEPT !.i = st.i + 1]
        top == st.stack[Len(st.stack)]
        popped == SubSeq(st.stack, 1, Len(st.stack) - 1)
    IN IF contains(line, <<"<details>">>)
         THEN [nxt EXCEPT !.in_details = TRUE]
       ELSE IF contains(line, <<"</details>">>)
         THEN [nxt EXCEPT !.in_details = FALSE]
       ELSE IF st.in_details
         THEN nxt
       ELSE IF m.ok
         THEN IF m.lang # <<>>
                THEN [nxt EXCEPT !.stack = Append(st.stack,
                          [count |-> m.count, line |-> st.i,
                           backticks |-> Rep(BT, m.count), lang |-> m.lang])]
              ELSE IF st.stack # <<>>
                THEN IF top.count = m.count
                       THEN [nxt EXCEPT !.stack = popped]
                       ELSE [nxt EXCEPT !.stack = popped,
                                        !.lines[st.i] = Rep(BT, top.count)]
              ELSE [nxt EXCEPT !.lines[st.i] =
                        replace1(line, Rep(BT, m.count), <<BS>> \o Rep(BT, m.count))]
       ELSE IF st.stack # <<>> /\ only_backticks(stripped)
         THEN [nxt EXCEPT !.stack = popped,
                          !.lines[st.i] = Rep(BT, top.count)]
       ELSE nxt

\* the whole scan loop: for i, line in enumerate(lines)
RECURSIVE ScanFrom(_)
ScanFrom(st) == IF st.i > Len(st.lines) THEN st ELSE ScanFrom(ScanLine(st))

Scan(lines) ==
    ScanFrom([lines |-> lines, stack |-> <<>>, in_details |-> FALSE, i |-> 1])

\* the section-break test of the forward search, at line j of lines
IsSectionBreak(lines, j) ==
    LET stripped == strip(lines[j])
    IN \/ stripped = <<"-", "-", "-">>
       \/ (j < Len(lines) /\ lines[j] = <<>> /\ startswith(strip(lines[j + 1]), <<"#">>))
       \/ startswith(stripped, <<"<a name=">>)

\* The body of "for fence in fence_stack": repair one unmatched opening fence.
\* fence.line is the index recorded during the scan; it is used as it is.
RepairFence(lines, fence) ==
    IF fence.count >= 4
      THEN LET l1 == [lines EXCEPT ![fence.line] =
                         replace1(lines[fence.line], fence.backticks, Rep(BT, 3))]
               brk == {j \in (fence.line + 1)..Len(l1) : IsSectionBreak(l1, j)}
           IN IF brk = {} THEN Append(l1, Rep(BT, 3))
              ELSE insert(l1, CHOOSE j \in brk : \A k \in brk : j <= k, Rep(BT, 3))
      ELSE [lines EXCEPT ![fence.line] =
                replace1(lines[fence.line], fence.backticks, <<BS>> \o fence.backticks)]

\* for fence in fence_stack: ... (bottom of the stack first)
RECURSIVE RepairAll(_, _)
RepairAll(lines, stack) ==
    IF stack = <<>> THEN lines
    ELSE RepairAll(RepairFence(lines, Head(stack)), Tail(stack))

balance_code_fences(lines) ==
    LET st == Scan(lines) IN RepairAll(st.lines, st.stack)

-----------------------------------------------------------------------------
(* The fence balancer applied to a document, and again to its own output *)

\* the lines a document is made of
BLines ==
    { <<>>, <<"x">>, <<"-", "-", "-">>, <<"#", "x">>,
      <<BT, BT, BT>>, <<BT, BT, BT, BT>>,
      <<BT, BT, BT, "a">>, <<BT, BT, BT, BT, "a">>,
      <<"<details>">>, <<"</details>">> }

\* text.split(...) never returns an empty list: a document has a line
BDocs == UNION {[1..n -> BLines] : n \in 1..MaxLines}

BInit ==
    /\ b_pc = "in"
    /\ b_in \in BDocs
    /\ b_out1 = <<>>
    /\ b_out2 = <<>>
    /\ JIdle /\ XIdle /\ EIdle /\ MIdle /\ TIdle /\ PIdle /\ CIdle

\* text = balance_code_fences(text)
BalanceOnce ==
    /\ b_pc = "in"
    /\ b_out1' = balance_code_fences(b_in)
    /\ b_pc' = "once"
    /\ UNCHANGED <<b_in, b_out2, NotB>>

\* the balancer run on its own output
BalanceAgain ==
    /\ b_pc = "once"
    /\ b_out2' = balance_code_fences(b_out1)
    /\ b_pc' = "twice"
    /\ UNCHANGED <<b_in, b_out1, NotB>>

BNext == BalanceOnce \/ BalanceAgain

SpecBalance == BInit /\ [][BNext]_vars

-----------------------------------------------------------------------------
(* Claims about the fence balancer *)

\* C1: re-running balance_code_fences on text that has already been through
\* it returns the same text, byte for byte.
C1_Idempotent == (b_pc = "twice") => (b_out2 = b_out1)

\* Structural validity of the fences of a document, read off the text alone:
\* outside <details> spans an opening fence line (3+ backticks and a language
\* tag) is pushed; a line of 3+ backticks only must, when a fence is open,
\* carry the count of the innermost open fence, which it closes; nothing may
\* be left open at the end.  open is the sequence of open counts.
RECURSIVE FencesValid(_, _, _, _)
FencesValid(lines, i, open, in_details) ==
    IF i > Len(lines) THEN open = <<>>
    ELSE LET line == lines[i]
             m == fence_pattern(strip(line))
         IN IF contains(line, <<"<details>">>)
              THEN FencesValid(lines, i + 1, open, TRUE)
            ELSE IF contains(line, <<"</details>">>)
              THEN FencesValid(lines, i + 1, open, FALSE)
            ELSE IF in_details \/ ~m.ok
              THEN FencesValid(lines, i + 1, open, in_details)
            ELSE IF m.lang # <<>>
              THEN FencesValid(lines, i + 1, Append(open, m.count), in_details)
            ELSE IF open = <<>>
              THEN FencesValid(lines, i + 1, open, in_details)
            ELSE /\ open[Len(open)] = m.count
                 /\ FencesValid(lines, i + 1, SubSeq(open, 1, Len(open) - 1), in_details)

\* C2: in the text returned by balance_code_fences every fence is
\* structurally valid: each opener is closed by a later backtick-only line of
\* the same count, innermost first, and no opener is left open at the end.
C2_OutputFencesValid == (b_pc # "in") => FencesValid(b_out1, 1, <<>>, FALSE)

\* the scan loop stopped before its iteration on line n: the lines as
\* rewritten so far, the fence stack and in_details as line n finds them
RECURSIVE ScanUpTo(_, _)
ScanUpTo(st, n) == IF st.i >= n THEN st ELSE ScanUpTo(ScanLine(st), n)

ScanBefore(lines, n) ==
    ScanUpTo([lines |-> lines, stack |-> <<>>, in_details |-> FALSE, i |-> 1], n)

\* the iteration on line n pops a frame / pushes one
ScanPops(lines, n) ==
    Len(ScanLine(ScanBefore(lines, n)).stack) < Len(ScanBefore(lines, n).stack)

ScanPushes(lines, n) ==
    Len(ScanLine(ScanBefore(lines, n)).stack) > Len(ScanBefore(lines, n).stack)

\* the frame on top of the stack as line n finds it
ScanTop(lines, n) ==
    ScanBefore(lines, n).stack[Len(ScanBefore(lines, n).stack)]

\* C18: during the line scan a frame is popped only by a closing line whose
\* backtick count is the same as or greater than the frame's opening count;
\* when the counts differ the closing line is rewritten to the frame's count,
\* and the frame's opening line is never rewritten by the scan.
C18_PoppedBySameOrGreater ==
    (b_pc # "in") =>
        \A n \in 1..Len(b_in) :
            ScanPops(b_in, n) =>
                /\ LeadingTicks(strip(b_in[n])) >= ScanTop(b_in, n).count
                /\ (LeadingTicks(strip(b_in[n])) # ScanTop(b_in, n).count
                      => Scan(b_in).lines[n] = Rep(BT, ScanTop(b_in, n).count))
                /\ Scan(b_in).lines[ScanTop(b_in, n).line] = b_in[ScanTop(b_in, n).line]

\* the scan's own view of <details> spans: line n is inside a span when
\* in_details is set as the loop reaches it and it is not the closing tag
InDetails(lines, n) ==
    /\ ScanBefore(lines, n).in_details
    /\ ~contains(lines[n], <<"<details>">>)
    /\ ~contains(lines[n], <<"</details>">>)

\* the content of the <details> spans of a document: the tag lines and the
\* lines inside a span, in order
RECURSIVE SpanLines(_, _, _)
SpanLines(lines, i, in_details) ==
    IF i > Len(lines) THEN <<>>
    ELSE IF contains(lines[i], <<"<details>">>)
      THEN <<lines[i]>> \o SpanLines(lines, i + 1, TRUE)
    ELSE IF contains(lines[i], <<"</details>">>)
      THEN <<lines[i]>> \o SpanLines(lines, i + 1, FALSE)
    ELSE IF in_details
      THEN <<lines[i]>> \o SpanLines(lines, i + 1, in_details)
    ELSE SpanLines(lines, i + 1, in_details)

\* C19: lines inside a <details>...</details> span are excluded from the
\* balancer entirely: none of them pushes or pops the fence stack, and the
\* text returned has, inside its spans, exactly the lines the text given had
\* there (none rewritten, escaped or inserted), also when the end-of-scan
\* repair searches forward for a section boundary.
C19_DetailsExcluded ==
    (b_pc # "in") =>
        /\ \A n \in 1..Len(b_in) :
               InDetails(b_in, n) => ~ScanPops(b_in, n) /\ ~ScanPushes(b_in, n)
        /\ SpanLines(b_out1, 1, FALSE) = SpanLines(b_in, 1, FALSE)

\* where RepairFence puts the closing line of a frame: the index it is
\* inserted at, 0 for a frame of 3 backticks, which gets none
ClosingIndex(lines, fence) ==
    LET brk == {j \in (fence.line + 1)..Len(lines) : IsSectionBreak(lines, j)}
    IN IF fence.count < 4 THEN 0
       ELSE IF brk = {} THEN Len(lines) + 1
       ELSE CHOOSE j \in brk : \A k \in brk : j <= k

\* The end-of-scan repair as the claim words it, frame by frame: the frame's
\* own line is the one rewritten, wherever the closing lines inserted for
\* earlier frames have moved it.
RECURSIVE RepairEvery(_, _)
RepairEvery(lines, stack) ==
    IF stack = <<>> THEN lines
    ELSE LET at == ClosingIndex(lines, Head(stack))
         IN RepairEvery(RepairFence(lines, Head(stack)),
                [k \in 1..(Len(stack) - 1) |->
                    IF at # 0 /\ stack[k + 1].line >= at
                      THEN [stack[k + 1] EXCEPT !.line = @ + 1]
                    ELSE stack[k + 1]])

\* C20: at end of scan every still-open frame is repaired, however many
\* remain open: an opener of 4 or more backticks has its own line rewritten
\* to exactly 3 backticks (language kept) and a closing line of 3 backticks
\* inserted before the first later section boundary, or appended when there
\* is none; an opener of exactly 3 backticks has its own line
\* backslash-prefixed; no other line is rewritten.
C20_EveryFrameRepaired ==
    (b_pc # "in") =>
        b_out1 = RepairEvery(Scan(b_in).lines, Scan(b_in).stack)

-----------------------------------------------------------------------------
(* smart_join_parts *)

\* "not part or not part.strip()": the fragment is None, empty or whitespace
IsBlankPart(part) == part = <<>> \/ strip(part) = <<>>

\* part_stripped.endswith(('.', '!', '?'))
EndsSentence(stripped) ==
    stripped # <<>> /\ stripped[Len(stripped)] \in {".", "!", "?"}

\* next_part.startswith('**') or .startswith('#') or .startswith('<details');
\* the symbol "<details>" begins with the eight characters "<details"
StartsParagraph(stripped) ==
    \/ startswith(stripped, <<"*", "*">>)
    \/ startswith(stripped, <<"#">>)
    \/ startswith(stripped, <<"<details>">>)

\* a lookahead that stops at the very next fragment, blank or not
NextNonBlankNoSkip(parts, k) == k

\* the while loop "find next non-empty part": the first index >= k of a
\* fragment that is not blank, Len(parts) + 1 when there is none
RECURSIVE NextNonBlank(_, _)
NextNonBlank(parts, k) ==
    IF k <= Len(parts) /\ IsBlankPart(parts[k]) THEN NextNonBlank(parts, k + 1) ELSE k

\* what one iteration of the for loop appends to result for fragment i
JoinPiece(parts, i) ==
    LET part == parts[i]
        next_idx == NextNonBlank(parts, i + 1)
    IN IF IsBlankPart(part) THEN <<>>
       ELSE IF i < Len(parts) /\ next_idx <= Len(parts)
                 /\ EndsSentence(strip(part))
                 /\ StartsParagraph(strip(parts[next_idx]))
                 /\ ~endswith(part, <<"\n", "\n">>)
              THEN IF endswith(part, <<"\n">>) THEN part \o <<"\n">>
                   ELSE part \o <<"\n", "\n">>
       ELSE part

\* ''.join(result) over the for loop from fragment i on
RECURSIVE JoinFrom(_, _)
JoinFrom(parts, i) ==
    IF i > Len(parts) THEN <<>> ELSE JoinPiece(parts, i) \o JoinFrom(parts, i + 1)

smart_join_parts(parts) == JoinFrom(parts, 1)

\* the fragments a response is made of
JFrags ==
    { <<>>, <<" ">>, <<"\n">>, <<"a">>, <<"a", ".">>, <<"a", "!", "\n">>,
      <<"?", "\n", "\n">>, <<"a", ".", " ">>,
      <<"*", "*", "b">>, <<" ", "#">>, <<"<details>">>, <<"*", "b">> }

JInit ==
    /\ j_pc = "in"
    /\ j_parts \in UNION {[1..n -> JFrags] : n \in 0..MaxParts}
    /\ j_out = <<>>
    /\ BIdle /\ XIdle /\ EIdle /\ MIdle /\ TIdle /\ PIdle /\ CIdle

\* full_response = smart_join_parts(response_parts)
Join ==
    /\ j_pc = "in"
    /\ j_out' = smart_join_parts(j_parts)
    /\ j_pc' = "done"
    /\ UNCHANGED <<j_parts, NotJ>>

JNext == Join

SpecJoin == JInit /\ [][JNext]_vars

-----------------------------------------------------------------------------
(* Claims about the text joiner *)

\* the fragments that are not blank, in order
RECURSIVE NonBlank(_)
NonBlank(parts) ==
    IF parts = <<>> THEN <<>>
    ELSE IF IsBlankPart(Head(parts)) THEN NonBlank(Tail(parts))
    ELSE <<Head(parts)>> \o NonBlank(Tail(parts))

\* f followed by the fewest newlines that make the text end in two newlines
EndInBlankLine(f) ==
    IF endswith(f, <<"\n", "\n">>) THEN f
    ELSE IF endswith(f, <<"\n">>) THEN f \o <<"\n">>
    ELSE f \o <<"\n", "\n">>

\* The joined text as C4 describes it, over fragments none of which is blank:
\* the fragments verbatim and in order, a blank line after fragment i exactly
\* when it ends a sentence and the next fragment starts a block.
RECURSIVE JoinedAsClaimed(_)
JoinedAsClaimed(nb) ==
    IF nb = <<>> THEN <<>>
    ELSE IF Len(nb) = 1 THEN nb[1]
    ELSE (IF EndsSentence(strip(nb[1])) /\ StartsParagraph(strip(nb[2]))
            THEN EndInBlankLine(nb[1]) ELSE nb[1])
         \o JoinedAsClaimed(Tail(nb))

\* C4: smart_join_parts returns the non-blank fragments verbatim and in
\* order, with a blank line between a fragment and the next non-blank one
\* when and only when the first ends in . ! ? and the second starts with
\* **, # or <details; blank fragments contribute nothing, so joining a list
\* equals joining the list with its blank fragments removed.
C4_JoinAsClaimed ==
    (j_pc = "done") =>
        /\ j_out = JoinedAsClaimed(NonBlank(j_parts))
        /\ j_out = smart_join_parts(NonBlank(j_parts))

\* a sentence, a whitespace-only fragment, then a block start: the blank
\* fragment is skipped and the blank line is inserted
C4_Witness ==
    /\ j_pc = "done"
    /\ j_parts = << <<"a", ".">>, <<" ">>, <<"*", "*", "b">> >>
    /\ j_out = <<"a", ".", "\n", "\n", "*", "*", "b">>

-----------------------------------------------------------------------------
(* JSON values, json.dumps and json.loads *)

(* A JSON value (the Python object json.loads returns) is a record with a   *)
(* type tag t; s holds the characters of a str, n the value of an int, kv   *)
(* the items of a list or the <<key, value>> pairs of a dict in insertion   *)
(* order.  Keys are character sequences like every other str.               *)
JNull == [t |-> "null", s |-> <<>>, n |-> 0, kv |-> <<>>]
JStr(chars) == [t |-> "str", s |-> chars, n |-> 0, kv |-> <<>>]
JNum(i) == [t |-> "num", s |-> <<>>, n |-> i, kv |-> <<>>]
JList(items) == [t |-> "list", s |-> <<>>, n |-> 0, kv |-> items]
JDict(pairs) == [t |-> "dict", s |-> <<>>, n |-> 0, kv |-> pairs]

\* a key written as one symbol
K(name) == <<name>>

IsDict(v) == v.t = "dict"
IsStr(v) == v.t = "str"
IsList(v) == v.t = "list"

\* key in d, for a dict d
HasKey(d, key) == \E k \in 1..Len(d.kv) : d.kv[k][1] = key

\* d.get(key, default) and d[key], for a dict d
JGet(d, key, default) ==
    IF HasKey(d, key)
      THEN d.kv[CHOOSE k \in 1..Len(d.kv) : d.kv[k][1] = key][2]
      ELSE default

\* d[key] = v: a key already there keeps its place
JSet(d, key, v) ==
    IF HasKey(d, key)
      THEN JDict([k \in 1..Len(d.kv) |->
                    IF d.kv[k][1] = key THEN <<key, v>> ELSE d.kv[k]])
      ELSE JDict(Append(d.kv, <<key, v>>))

\* bool(v): Python's truth value
Truthy(v) ==
    CASE v.t = "null" -> FALSE
      [] v.t = "str" -> v.s # <<>>
      [] v.t = "num" -> v.n # 0
      [] OTHER -> v.kv # <<>>

QUOTE == "\""

DigitChars == <<"0", "1", "2", "3", "4", "5", "6", "7", "8", "9">>
IsDigit(c) == \E d \in 1..10 : DigitChars[d] = c
DigitValue(c) == (CHOOSE d \in 1..10 : DigitChars[d] = c) - 1

\* str(i) for an int i
RECURSIVE NatDigits(_)
NatDigits(i) ==
    IF i < 10 THEN <<DigitChars[i + 1]>>
    ELSE NatDigits(i \div 10) \o <<DigitChars[(i % 10) + 1]>>

IntDigits(i) == IF i < 0 THEN <<"-">> \o NatDigits(0 - i) ELSE NatDigits(i)

\* the body of a JSON string literal: quote, backslash and newline escaped
RECURSIVE EscapeJson(_)
EscapeJson(chars) ==
    IF chars = <<>> THEN <<>>
    ELSE (CASE Head(chars) = QUOTE -> <<BS, QUOTE>>
            [] Head(chars) = BS -> <<BS, BS>>
            [] Head(chars) = "\n" -> <<BS, "n">>
            [] OTHER -> <<Head(chars)>>)
         \o EscapeJson(Tail(chars))

\* json.dumps(v) with the default separators ', ' and ': '
RECURSIVE dumps(_), DumpItems(_, _), DumpPairs(_, _)
dumps(v) ==
    CASE v.t = "null" -> <<"n", "u", "l", "l">>
      [] v.t = "str" -> <<QUOTE>> \o EscapeJson(v.s) \o <<QUOTE>>
      [] v.t = "num" -> IntDigits(v.n)
      [] v.t = "list" -> <<"[">> \o DumpItems(v.kv, 1) \o <<"]">>
      [] OTHER -> <<"{">> \o DumpPairs(v.kv, 1) \o <<"}">>

DumpItems(items, k) ==
    IF k > Len(items) THEN <<>>
    ELSE (IF k > 1 THEN <<",", " ">> ELSE <<>>)
         \o dumps(items[k]) \o DumpItems(items, k + 1)

DumpPairs(pairs, k) ==
    IF k > Len(pairs) THEN <<>>
    ELSE (IF k > 1 THEN <<",", " ">> ELSE <<>>)
         \o <<QUOTE>> \o EscapeJson(pairs[k][1]) \o <<QUOTE, ":", " ">>
         \o dumps(pairs[k][2]) \o DumpPairs(pairs, k + 1)

\* JSON whitespace skipped by the decoder
RECURSIVE SkipWs(_, _)
SkipWs(toks, p) ==
    IF p <= Len(toks) /\ toks[p] \in {" ", "\n"} THEN SkipWs(toks, p + 1) ELSE p

ParseFail == [ok |-> FALSE, v |-> JNull, pos |-> 0]
ParseOk(v, pos) == [ok |-> TRUE, v |-> v, pos |-> pos]

\* the rest of a string literal, from the character after its opening quote;
\* a raw newline inside a literal is refused (strict mode).  The escapes are
\* those of the characters of the model: quote, backslash, slash, newline.
RECURSIVE ParseString(_, _, _)
ParseString(toks, p, acc) ==
    IF p > Len(toks) THEN ParseFail
    ELSE IF toks[p] = QUOTE THEN ParseOk(JStr(acc), p + 1)
    ELSE IF toks[p] = "\n" THEN ParseFail
    ELSE IF toks[p] = BS
      THEN IF p + 1 > Len(toks) THEN ParseFail
           ELSE IF toks[p + 1] \in {QUOTE, BS, "/"}
             THEN ParseString(toks, p + 2, Append(acc, toks[p + 1]))
           ELSE IF toks[p + 1] = "n"
             THEN ParseString(toks, p + 2, Append(acc, "\n"))
           ELSE ParseFail
    ELSE ParseString(toks, p + 1, Append(acc, toks[p]))

\* the digits of an int from p on: value so far acc
RECURSIVE ParseDigits(_, _, _)
ParseDigits(toks, p, acc) ==
    IF p <= Len(toks) /\ IsDigit(toks[p])
      THEN ParseDigits(toks, p + 1, acc * 10 + DigitValue(toks[p]))
      ELSE ParseOk(JNum(acc), p)

\* an int: -? (0 | [1-9][0-9]*)
ParseNumber(toks, p) ==
    LET neg == toks[p] = "-"
        q == IF neg THEN p + 1 ELSE p
        r == IF q > Len(toks) \/ ~IsDigit(toks[q]) THEN ParseFail
             ELSE IF toks[q] = "0" THEN ParseOk(JNum(0), q + 1)
             ELSE ParseDigits(toks, q, 0)
    IN IF r.ok /\ neg THEN ParseOk(JNum(0 - r.v.n), r.pos) ELSE r

RECURSIVE ParseValue(_, _), ParseItems(_, _, _), ParsePairs(_, _, _)
\* one JSON value starting at p (no whitespace skipped before it)
ParseValue(toks, p) ==
    IF p > Len(toks) THEN ParseFail
    ELSE IF toks[p] = QUOTE THEN ParseString(toks, p + 1, <<>>)
    ELSE IF toks[p] = "{"
      THEN LET q == SkipWs(toks, p + 1)
           IN IF q <= Len(toks) /\ toks[q] = "}" THEN ParseOk(JDict(<<>>), q + 1)
              ELSE ParsePairs(toks, q, JDict(<<>>))
    ELSE IF toks[p] = "["
      THEN LET q == SkipWs(toks, p + 1)
           IN IF q <= Len(toks) /\ toks[q] = "]" THEN ParseOk(JList(<<>>), q + 1)
              ELSE ParseItems(toks, q, <<>>)
    ELSE IF toks[p] = "-" \/ IsDigit(toks[p]) THEN ParseNumber(toks, p)
    ELSE IF p + 3 <= Len(toks) /\ SubSeq(toks, p, p + 3) = <<"n", "u", "l", "l">> THEN ParseOk(JNull, p + 4)
    ELSE ParseFail

\* the items of a list from p on, p at the start of an item
ParseItems(toks, p, acc) ==
    LET r == ParseValue(toks, p)
        q == SkipWs(toks, r.pos)
    IN IF ~r.ok \/ q > Len(toks) THEN ParseFail
       ELSE IF toks[q] = "]" THEN ParseOk(JList(Append(acc, r.v)), q + 1)
       ELSE IF toks[q] = "," THEN ParseItems(toks, SkipWs(toks, q + 1), Append(acc, r.v))
       ELSE ParseFail

\* the pairs of an object from p on, p at the quote of a key
ParsePairs(toks, p, acc) ==
    IF p > Len(toks) \/ toks[p] # QUOTE THEN ParseFail
    ELSE LET key == ParseString(toks, p + 1, <<>>)
             c == SkipWs(toks, key.pos)
         IN IF ~key.ok \/ c > Len(toks) \/ toks[c] # ":" THEN ParseFail
            ELSE LET r == ParseValue(toks, SkipWs(toks, c + 1))
                     q == SkipWs(toks, r.pos)
                     d == JSet(acc, key.v.s, r.v)
                 IN IF ~r.ok \/ q > Len(toks) THEN ParseFail
                    ELSE IF toks[q] = "}" THEN ParseOk(d, q + 1)
                    ELSE IF toks[q] = "," THEN ParsePairs(toks, SkipWs(toks, q + 1), d)
                    ELSE ParseFail

\* json.loads(toks): ok is FALSE where it raises JSONDecodeError
loads(toks) ==
    LET r == ParseValue(toks, SkipWs(toks, 1))
    IN IF r.ok /\ SkipWs(toks, r.pos) > Len(toks) THEN r ELSE ParseFail

-----------------------------------------------------------------------------
(* Python's str() and os.path.basename *)

\* what a call did: it returned v, or it raised
Ret(v) == [raises |-> FALSE, v |-> v]
Raised == [raises |-> TRUE, v |-> JNull]
EmptyStr == JStr(<<>>)

\* the body of repr(s) for a str without an apostrophe: backslash and
\* newline escaped
RECURSIVE EscapeRepr(_)
EscapeRepr(chars) ==
    IF chars = <<>> THEN <<>>
    ELSE (CASE Head(chars) = BS -> <<BS, BS>>
            [] Head(chars) = "\n" -> <<BS, "n">>
            [] OTHER -> <<Head(chars)>>)
         \o EscapeRepr(Tail(chars))

\* repr(v): a str in apostrophes, None, the items of a list or dict
RECURSIVE PyRepr(_), ReprItems(_, _), ReprPairs(_, _)
PyRepr(v) ==
    CASE v.t = "null" -> <<"N", "o", "n", "e">>
      [] v.t = "str" -> <<"'">> \o EscapeRepr(v.s) \o <<"'">>
      [] v.t = "num" -> IntDigits(v.n)
      [] v.t = "list" -> <<"[">> \o ReprItems(v.kv, 1) \o <<"]">>
      [] OTHER -> <<"{">> \o ReprPairs(v.kv, 1) \o <<"}">>

ReprItems(items, k) ==
    IF k > Len(items) THEN <<>>
    ELSE (IF k > 1 THEN <<",", " ">> ELSE <<>>)
         \o PyRepr(items[k]) \o ReprItems(items, k + 1)

ReprPairs(pairs, k) ==
    IF k > Len(pairs) THEN <<>>
    ELSE (IF k > 1 THEN <<",", " ">> ELSE <<>>)
         \o PyRepr(JStr(pairs[k][1])) \o <<":", " ">>
         \o PyRepr(pairs[k][2]) \o ReprPairs(pairs, k + 1)

\* str(v), as an f-string formats it: a str is itself
PyStr(v) == IF v.t = "str" THEN v.s ELSE PyRepr(v)

\* the characters after the last "/" of a path
RECURSIVE AfterLastSlash(_)
AfterLastSlash(chars) ==
    IF contains(chars, <<"/">>)
      THEN AfterLastSlash(SubSeq(chars, find(chars, <<"/">>) + 1, Len(chars)))
      ELSE chars

\* os.path.basename(v): TypeError for anything but a str
basename(v) == IF v.t = "str" THEN Ret(JStr(AfterLastSlash(v.s))) ELSE Raised

-----------------------------------------------------------------------------
(* extract_text_from_response_part *)

\* the placeholder delimiters __TEXT_EDIT_GROUP__, __TOOL_INVOCATION__ and
\* __PROGRESS_TASK__, each one symbol
TEG == "TEG"
TI == "TI"
PT == "PT"

Placeholder(delim, part) == JStr(<<delim>> \o dumps(part) \o <<delim>>)

\* part[key] is a dict that has a 'value'
HasDictValue(part, key) ==
    /\ HasKey(part, key)
    /\ IsDict(JGet(part, key, JNull))
    /\ HasKey(JGet(part, key, JNull), K("value"))

\* f"*{part[key]['value']}*"
Emphasis(part, key) ==
    JStr(<<"*">> \o PyStr(JGet(JGet(part, key, JNull), K("value"), JNull)) \o <<"*">>)

\* lines 24-34: kind == 'inlineReference'
ExtractInlineReference(part) ==
    LET inline_ref == JGet(part, K("inlineReference"), JDict(<<>>))
    IN IF ~IsDict(inline_ref) THEN Ret(EmptyStr)
       ELSE IF HasKey(inline_ref, K("name"))
         THEN Ret(JStr(<<BT>> \o PyStr(JGet(inline_ref, K("name"), JNull)) \o <<BT>>))
       ELSE IF HasKey(inline_ref, K("path"))
         THEN LET filename == basename(JGet(inline_ref, K("path"), JNull))
              IN IF filename.raises THEN Raised
                 ELSE Ret(JStr(<<BT>> \o filename.v.s \o <<BT>>))
       ELSE Ret(EmptyStr)

\* lines 53-71: the part is a dict and the kind dispatch returned nothing;
\* done is FALSE where the code falls through to the last lines
ExtractRegular(part) ==
    LET value == JGet(part, K("value"), JNull)
        content == JGet(part, K("content"), JNull)
    IN IF (HasKey(part, K("id")) /\ (HasKey(part, K("kind")) \/ HasKey(part, K("$mid"))))
             \/ HasKey(part, K("$mid"))
         THEN [done |-> TRUE, res |-> Ret(EmptyStr)]
       ELSE IF HasKey(part, K("value"))
         THEN IF IsStr(value) /\ contains(value.s, <<"{">>) /\ contains(value.s, <<"$mid">>)
                THEN [done |-> TRUE, res |-> Ret(EmptyStr)]
              ELSE IF IsStr(value) /\ strip(value.s) = <<BT, BT, BT>>
                THEN [done |-> TRUE, res |-> Ret(EmptyStr)]
              ELSE [done |-> TRUE, res |-> Ret(value)]
       ELSE IF HasKey(part, K("content")) /\ IsStr(content)
         THEN [done |-> TRUE, res |-> Ret(content)]
       ELSE IF HasDictValue(part, K("content"))
         THEN [done |-> TRUE, res |-> Ret(JGet(content, K("value"), JNull))]
       ELSE [done |-> FALSE, res |-> Raised]

\* lines 73-77: the part is not a dict, or nothing above returned
ExtractLast(part) ==
    IF IsStr(part) /\ contains(part.s, <<"{">>)
          /\ (contains(part.s, <<"$mid">>) \/ contains(part.s, <<"kind">>))
      THEN Ret(EmptyStr)
    ELSE IF Truthy(part) THEN Ret(JStr(PyStr(part)))
    ELSE Ret(EmptyStr)

extract_text_from_response_part(part) ==
    LET kind == JGet(part, K("kind"), JNull)
        regular == ExtractRegular(part)
    IN IF ~IsDict(part) THEN ExtractLast(part)
       ELSE IF HasKey(part, K("kind")) /\ kind = JStr(K("textEditGroup"))
         THEN Ret(Placeholder(TEG, part))
       ELSE IF HasKey(part, K("kind")) /\ kind = JStr(K("inlineReference"))
         THEN ExtractInlineReference(part)
       ELSE IF HasKey(part, K("kind"))
                 /\ kind \in {JStr(K("undoStop")), JStr(K("codeblockUri"))}
         THEN Ret(EmptyStr)
       ELSE IF HasKey(part, K("kind")) /\ kind = JStr(K("toolInvocationSerialized"))
         THEN Ret(Placeholder(TI, part))
       ELSE IF HasKey(part, K("kind")) /\ kind = JStr(K("progressTaskSerialized"))
         THEN Ret(Placeholder(PT, part))
       ELSE IF HasKey(part, K("kind")) /\ kind = JStr(K("prepareToolInvocation"))
         THEN Ret(EmptyStr)
       ELSE IF HasKey(part, K("kind")) /\ HasDictValue(part, K("content"))
         THEN Ret(Emphasis(part, K("content")))
       ELSE IF HasKey(part, K("kind")) /\ HasDictValue(part, K("invocationMessage"))
         THEN Ret(Emphasis(part, K("invocationMessage")))
       ELSE IF HasKey(part, K("kind")) /\ HasDictValue(part, K("pastTenseMessage"))
         THEN Ret(Emphasis(part, K("pastTenseMessage")))
       ELSE IF regular.done THEN regular.res
       ELSE ExtractLast(part)

\* re.search of DELIM(.*?)DELIM with re.DOTALL in text from position from on:
\* the leftmost delimiter and the nearest one after it; payload is group(1)
span_search(text, delim, from) ==
    LET at == {k \in from..Len(text) : text[k] = delim}
        first == CHOOSE k \in at : \A m \in at : k <= m
        later == {k \in at : k > first}
        second == CHOOSE k \in later : \A m \in later : k <= m
    IN IF at = {} \/ later = {}
         THEN [found |-> FALSE, start |-> 0, end |-> 0, payload |-> <<>>]
         ELSE [found |-> TRUE, start |-> first, end |-> second,
               payload |-> SubSeq(text, first + 1, second - 1)]

-----------------------------------------------------------------------------
(* The extractor applied to one response part *)

Pair(name, v) == << <<K(name), v>> >>
Absent == <<>>

XKinds ==
    { "textEditGroup", "inlineReference", "undoStop", "codeblockUri",
      "toolInvocationSerialized", "progressTaskSerialized",
      "prepareToolInvocation", "zzz" }

XKindOpt == {Absent} \cup {Pair("kind", JStr(K(k))) : k \in XKinds}

XRefOpt ==
    { Absent,
      Pair("inlineReference", JDict(Pair("name", JStr(<<"f">>)))),
      Pair("inlineReference", JDict(Pair("path", JStr(<<"/", "a", "/", "b", ".py">>)))),
      Pair("inlineReference", JDict(Pair("path", JNum(5)))),
      Pair("inlineReference", JDict(Pair("name", JNull) \o Pair("path", JStr(<<"b">>)))),
      Pair("inlineReference", JDict(<<>>)),
      Pair("inlineReference", JStr(<<"f">>)) }

XMsgOpt ==
    { Absent,
      Pair("invocationMessage", JStr(<<"x">>)),
      Pair("invocationMessage", JStr(<<"x", TI, "y">>)),
      Pair("invocationMessage", JDict(Pair("value", JStr(<<"x", QUOTE>>)))),
      Pair("invocationMessage", JDict(Pair("value", JStr(<<PT, TEG>>)))) }

XContentOpt ==
    { Absent,
      Pair("content", JStr(<<"c">>)),
      Pair("content", JDict(Pair("value", JStr(<<"v">>)))),
      Pair("content", JNum(5)) }

XValueOpt ==
    { Absent,
      Pair("value", JStr(<<"x">>)),
      Pair("value", JStr(<<"{", "$mid">>)),
      Pair("value", JStr(<<BT, BT, BT, "\n">>)),
      Pair("value", JNull) }

XIdOpt == {Absent, Pair("id", JNum(1))}
XMidOpt == {Absent, Pair("$mid", JNum(1))}
XFooOpt == {Absent, Pair("foo", JNum(1))}

\* the response parts: dicts with any choice of the fields the extractor
\* looks at, and a few values that are no dict
XParts ==
    { JDict(k \o r \o m \o c \o v \o i \o d \o f) :
        k \in XKindOpt, r \in XRefOpt, m \in XMsgOpt, c \in XContentOpt,
        v \in XValueOpt, i \in XIdOpt, d \in XMidOpt, f \in XFooOpt }
    \cup { JNull, JNum(0), JNum(5), JStr(<<>>), JStr(<<"x">>),
           JStr(<<"{", "kind">>), JStr(<<"{", "x">>), JList(<<>>), JList(<<JNum(1)>>) }

XInit ==
    /\ x_pc = "in"
    /\ x_part \in XParts
    /\ x_res = <<>>
    /\ BIdle /\ JIdle /\ EIdle /\ MIdle /\ TIdle /\ PIdle /\ CIdle

\* text = extract_text_from_response_part(part)
Extract ==
    /\ x_pc = "in"
    /\ x_res' = extract_text_from_response_part(x_part)
    /\ x_pc' = "done"
    /\ UNCHANGED <<x_part, NotX>>

XNext == Extract

SpecExtract == XInit /\ [][XNext]_vars

-----------------------------------------------------------------------------
(* Claims about the part extractor *)

\* C5: extract_text_from_response_part never raises, whatever the shape of
\* the record: it returns display text or the empty string.
C5_NeverRaises == (x_pc = "done") => ~x_res.raises

XKindIs(part, names) ==
    IsDict(part) /\ HasKey(part, K("kind"))
    /\ \E k \in names : JGet(part, K("kind"), JNull) = JStr(K(k))

\* a dict none of whose fields the extractor knows a shape for
NoKnownShape(part) ==
    /\ IsDict(part)
    /\ ~XKindIs(part, XKinds \ {"zzz"})
    /\ \A key \in {"value", "content", "invocationMessage", "pastTenseMessage",
                   "inlineReference"} : ~HasKey(part, K(key))

\* a dict without a kind that carries the internal id marker
RawMetadata(part) ==
    IsDict(part) /\ ~HasKey(part, K("kind")) /\ HasKey(part, K("$mid"))

\* C6: a record degrades to the empty string when none of the known shapes
\* match (no recognised kind, no value, no content) or when it carries the
\* internal id marker $mid.
C6_DegradesToEmpty ==
    (x_pc = "done" /\ (NoKnownShape(x_part) \/ RawMetadata(x_part)))
        => x_res = Ret(EmptyStr)

\* the text C7 gives for a record of kind inlineReference
InlineReferenceAsClaimed(part) ==
    LET ref == JGet(part, K("inlineReference"), JDict(<<>>))
    IN IF IsDict(ref) /\ HasKey(ref, K("name"))
         THEN JStr(<<BT>> \o PyStr(JGet(ref, K("name"), JNull)) \o <<BT>>)
       ELSE IF IsDict(ref) /\ HasKey(ref, K("path"))
         THEN JStr(<<BT>> \o AfterLastSlash(PyStr(JGet(ref, K("path"), JNull))) \o <<BT>>)
       ELSE EmptyStr

\* C7: the kind dispatch table: undoStop, codeblockUri and
\* prepareToolInvocation extract to the empty string whatever else the record
\* carries; inlineReference extracts to the name in backticks, otherwise to
\* the base filename of the path in backticks, otherwise to the empty string.
C7_KindDispatch ==
    (x_pc = "done") =>
        /\ XKindIs(x_part, {"undoStop", "codeblockUri", "prepareToolInvocation"})
              => x_res = Ret(EmptyStr)
        /\ XKindIs(x_part, {"inlineReference"})
              => x_res = Ret(InlineReferenceAsClaimed(x_part))

\* the delimiter of the placeholder a record of that kind is turned into
XDelim(part) ==
    IF XKindIs(part, {"textEditGroup"}) THEN TEG
    ELSE IF XKindIs(part, {"toolInvocationSerialized"}) THEN TI
    ELSE PT

\* C8: for a record turned into a placeholder the delimiter never occurs in
\* the serialized payload, so the non-greedy delimiter-bounded span is the
\* payload and parsing it gives back the record.
C8_PlaceholderRoundTrip ==
    (x_pc = "done" /\ XKindIs(x_part, {"textEditGroup", "toolInvocationSerialized",
                                       "progressTaskSerialized"})) =>
        LET span == span_search(x_res.v.s, XDelim(x_part), 1)
        IN /\ ~x_res.raises
           /\ ~contains(dumps(x_part), <<XDelim(x_part)>>)
           /\ span.found
           /\ span.payload = dumps(x_part)
           /\ loads(span.payload) = ParseOk(x_part, Len(span.payload) + 1)

-----------------------------------------------------------------------------
(* format_text_edit_group *)

Max(a, b) == IF a >= b THEN a ELSE b

\* '\n'.join(items)
RECURSIVE JoinNL(_)
JoinNL(items) ==
    IF items = <<>> THEN <<>>
    ELSE IF Len(items) = 1 THEN items[1]
    ELSE items[1] \o <<"\n">> \o JoinNL(Tail(items))

\* the least element of a set of numbers that is not empty
Min(S) == CHOOSE k \in S : \A m \in S : k <= m

\* the end of the run of backticks that starts at i (i - 1 when chars[i] is
\* no backtick)
RECURSIVE TickRunEnd(_, _)
TickRunEnd(chars, i) ==
    IF i <= Len(chars) /\ chars[i] = BT THEN TickRunEnd(chars, i + 1) ELSE i - 1

\* max(len(m) for m in re.findall(backtick+, chars)), 0 when there is none
MaxRun(chars) ==
    LET starts == {k \in 1..Len(chars) :
                     chars[k] = BT /\ (k = 1 \/ chars[k - 1] # BT)}
        lens == {TickRunEnd(chars, k) - k + 1 : k \in starts}
    IN IF starts = {} THEN 0 ELSE CHOOSE n \in lens : \A m \in lens : m <= n

\* a fence of exactly the longest run, not one more
EditFenceLenTooShort(text_content) == Max(3, MaxRun(text_content))

\* lines 338-345 and 375-381: max_backticks for one edit's text
EditFenceLen(text_content) ==
    IF MaxRun(text_content) > 0 THEN Max(3, MaxRun(text_content) + 1) ELSE 3

\* os.path.splitext(file_name)[1], for the extensions that are one symbol
file_ext(file_name) ==
    IF /\ Len(file_name) >= 2
       /\ file_name[Len(file_name)] \in {".md", ".py", ".json", ".txt"}
       /\ \E k \in 1..(Len(file_name) - 1) : file_name[k] # "."
      THEN file_name[Len(file_name)] ELSE ""

\* line 319
edit_lang(file_name) ==
    CASE file_ext(file_name) = ".md" -> <<"markdown">>
      [] file_ext(file_name) = ".py" -> <<"python">>
      [] file_ext(file_name) = ".json" -> <<"json">>
      [] OTHER -> <<>>

edit_range_of(edit) == JGet(edit, K("range"), JDict(<<>>))

\* a range of any type is read without a raise
RangeNeverRaises(edit) == FALSE

\* "if edit_range: edit_range.get(...)" raises for a truthy value that is
\* no dict
RangeRaises(edit) == Truthy(edit_range_of(edit)) /\ ~IsDict(edit_range_of(edit))

\* the label lines of one edit shown on its own (lines 327-335, 364-372)
EditLabel(edit, one, many) ==
    LET edit_range == edit_range_of(edit)
        start_line == JGet(edit_range, K("startLineNumber"), EmptyStr)
        end_line == JGet(edit_range, K("endLineNumber"), EmptyStr)
    IN IF Truthy(edit_range) /\ Truthy(start_line) /\ Truthy(end_line)
         THEN IF start_line = end_line
                THEN << <<" ", " ", "<p>", "<strong>", one>> \o PyStr(start_line)
                          \o <<":", "</strong>", "</p>">>, <<>> >>
                ELSE << <<" ", " ", "<p>", "<strong>", many>> \o PyStr(start_line)
                          \o <<"-">> \o PyStr(end_line) \o <<":", "</strong>", "</p>">>, <<>> >>
         ELSE <<>>

\* the three lines of a fenced block
FencedBlock(n, lang, content) == <<Rep(BT, n) \o lang, content, Rep(BT, n)>>

\* lines 322-353: exactly one edit
OneEditLines(edit, lang) ==
    LET text_content == JGet(edit, K("text"), EmptyStr).s
        clean_content == IF endswith(text_content, <<"\n">>)
                           THEN SubSeq(text_content, 1, Len(text_content) - 1)
                           ELSE text_content
    IN EditLabel(edit, "Modified line ", "Modified lines ")
       \o FencedBlock(EditFenceLen(text_content), lang, clean_content)

\* lines 356-384: two to five edits, one block each
RECURSIVE FewEditsLines(_, _, _)
FewEditsLines(all_edits, i, lang) ==
    IF i > Len(all_edits) THEN <<>>
    ELSE LET text_content == JGet(all_edits[i], K("text"), EmptyStr).s
         IN (IF i > 1 THEN << <<>> >> ELSE <<>>)
            \o EditLabel(all_edits[i], "Line ", "Lines ")
            \o FencedBlock(EditFenceLen(text_content), lang, rstrip(text_content))
            \o FewEditsLines(all_edits, i + 1, lang)

\* the sort key of line 395
start_key(edit) ==
    IF Truthy(edit_range_of(edit))
      THEN JGet(edit_range_of(edit), K("startLineNumber"), JNum(0))
      ELSE JNum(0)

\* a < b between two strings of digits, as Python compares strings
RECURSIVE StrLess(_, _)
StrLess(a, b) ==
    IF b = <<>> THEN FALSE
    ELSE IF a = <<>> THEN TRUE
    ELSE IF Head(a) = Head(b) THEN StrLess(Tail(a), Tail(b))
    ELSE DigitValue(Head(a)) < DigitValue(Head(b))

\* a < b for two keys of the same type
KeyLess(a, b) == IF a.t = "num" THEN a.n < b.n ELSE StrLess(a.s, b.s)

\* list.sort raises TypeError unless the keys are all numbers or all strings
SortRaises(pairs) ==
    /\ Len(pairs) >= 2
    /\ ~ \/ \A k \in 1..Len(pairs) : pairs[k][1].t = "num"
         \/ \A k \in 1..Len(pairs) : pairs[k][1].t = "str"

\* where a stable sort puts item into a sorted run: before the first
\* element with a greater key
RECURSIVE InsertSorted(_, _)
InsertSorted(sorted, item) ==
    IF sorted = <<>> THEN <<item>>
    ELSE IF KeyLess(item[1], Head(sorted)[1]) THEN <<item>> \o sorted
    ELSE <<Head(sorted)>> \o InsertSorted(Tail(sorted), item)

\* line 397: sorted_edits.sort(key=lambda x: x[0])
RECURSIVE SortPairs(_, _)
SortPairs(pairs, n) ==
    IF n = 0 THEN <<>> ELSE InsertSorted(SortPairs(pairs, n - 1), pairs[n])

\* lines 393-396
sorted_pairs(all_edits) ==
    LET pairs == [k \in 1..Len(all_edits) |-> <<start_key(all_edits[k]), all_edits[k]>>]
    IN SortPairs(pairs, Len(pairs))

\* lines 419-421 and 434-435: the end line of a (key, edit) pair
pair_end_line(pair) ==
    IF Truthy(edit_range_of(pair[2]))
      THEN JGet(edit_range_of(pair[2]), K("endLineNumber"), pair[1])
      ELSE pair[1]

\* edits count as consecutive only when the next one starts on the line
\* after the previous end, or before
ConsecutiveWithinOne(next_line_num, prev_end_line) ==
    IF next_line_num.n <= prev_end_line.n + 1 THEN "yes" ELSE "no"

\* line 424, left to right with short-circuit: "yes", "no" or "raise"
Consecutive(next_line_num, prev_end_line) ==
    IF next_line_num = JNum(0) THEN "no"
    ELSE IF prev_end_line = JNum(0) THEN "no"
    ELSE IF prev_end_line.t # "num" THEN "raise"
    ELSE IF next_line_num.t # "num" THEN "raise"
    ELSE IF next_line_num.n <= prev_end_line.n + 2 THEN "yes" ELSE "no"

\* lines 417-428: the index after the group that starts at i and reaches
\* j - 1 so far, 0 when the comparison raises
RECURSIVE GroupEnd(_, _)
GroupEnd(sorted, j) ==
    IF j > Len(sorted) THEN j
    ELSE LET c == Consecutive(sorted[j][1], pair_end_line(sorted[j - 1]))
         IN IF c = "raise" THEN 0
            ELSE IF c = "yes" THEN GroupEnd(sorted, j + 1)
            ELSE j

\* the end of a blank run that starts at i
RECURSIVE SpaceRunEnd(_, _)
SpaceRunEnd(chars, i) ==
    IF i <= Len(chars) /\ IsSpace(chars[i]) THEN SpaceRunEnd(chars, i + 1) ELSE i - 1

\* the last newline of the blank run that starts at the newline at i, when
\* that run holds three newlines or more; 0 otherwise
blank_lines_at(chars, i) ==
    LET nls == {k \in i..SpaceRunEnd(chars, i) : chars[k] = "\n"}
    IN IF chars[i] = "\n" /\ Cardinality(nls) >= 3
         THEN CHOOSE k \in nls : \A m \in nls : m <= k
         ELSE 0

\* line 453: re.sub(r'\n\s*\n\s*\n+', '\n\n', chars), from position i: a
\* match starts at a newline whose blank run holds three newlines or more
\* and ends at the last newline of that run
RECURSIVE collapse_blank_lines(_, _)
collapse_blank_lines(chars, i) ==
    LET at == {k \in i..Len(chars) : blank_lines_at(chars, k) # 0}
    IN IF at = {} THEN SubSeq(chars, i, Len(chars))
       ELSE SubSeq(chars, i, Min(at) - 1) \o <<"\n", "\n">>
            \o collapse_blank_lines(chars, blank_lines_at(chars, Min(at)) + 1)

\* lines 442-447 for the edits i..j
RECURSIVE consecutive_text_parts(_, _, _)
consecutive_text_parts(sorted, i, j) ==
    IF i > j THEN <<>>
    ELSE <<strip(JGet(sorted[i][2], K("text"), EmptyStr).s)>>
         \o consecutive_text_parts(sorted, i + 1, j)

\* lines 431-457: what a group of several edits i..j adds to
\* combined_content
GroupItems(sorted, i, j) ==
    LET first_line == sorted[i][1]
        last_line == pair_end_line(sorted[j])
        combined_consecutive ==
            strip(collapse_blank_lines(JoinNL(consecutive_text_parts(sorted, i, j)), 1))
    IN (IF Truthy(first_line) /\ Truthy(last_line)
          THEN << <<"# Lines ">> \o PyStr(first_line) \o <<"-">>
                    \o PyStr(last_line) \o <<":">> >>
          ELSE <<>>)
       \o (IF combined_consecutive # <<>> THEN <<combined_consecutive>> ELSE <<>>)

\* lines 459-473: what an edit on its own at index i adds
SingleItems(sorted, i) ==
    LET edit == sorted[i][2]
        edit_range == edit_range_of(edit)
        start_line == JGet(edit_range, K("startLineNumber"), EmptyStr)
        end_line == JGet(edit_range, K("endLineNumber"), EmptyStr)
    IN << IF Truthy(edit_range) /\ Truthy(start_line) /\ Truthy(end_line)
            THEN IF start_line = end_line
                   THEN <<"# Line ">> \o PyStr(start_line) \o <<":">>
                   ELSE <<"# Lines ">> \o PyStr(start_line) \o <<"-">>
                          \o PyStr(end_line) \o <<":">>
            ELSE <<"# Edit ">> \o NatDigits(i) \o <<":">>,
          rstrip(JGet(edit, K("text"), EmptyStr).s) >>

\* lines 403-478: combined_content from the group that starts at i on
RECURSIVE CombinedContent(_, _)
CombinedContent(sorted, i) ==
    IF i > Len(sorted) THEN Ret(<<>>)
    ELSE LET j == GroupEnd(sorted, i + 1)
         IN IF j = 0 THEN Raised
            ELSE LET rest == CombinedContent(sorted, j)
                     here == IF j - i > 1 THEN GroupItems(sorted, i, j - 1)
                             ELSE SingleItems(sorted, i)
                 IN IF rest.raises THEN Raised
                    ELSE Ret(here \o (IF j <= Len(sorted) THEN << <<>> >> ELSE <<>>)
                             \o rest.v)

\* lines 409-411: has_code_blocks looks at the first edit of each group
RECURSIVE has_code_blocks(_, _)
has_code_blocks(sorted, i) ==
    IF i > Len(sorted) THEN FALSE
    ELSE \/ contains(JGet(sorted[i][2], K("text"), EmptyStr).s, <<BT, BT, BT>>)
         \/ has_code_blocks(sorted, GroupEnd(sorted, i + 1))

\* lines 482-495: the length of the fence around the consolidated block
ManyFenceLen(final_content, has_blocks) ==
    IF has_blocks \/ contains(final_content, <<BT, BT, BT>>)
      THEN Max((IF MaxRun(final_content) = 0 THEN 3 ELSE MaxRun(final_content)) + 1, 4)
      ELSE 3

\* lines 387-495: more than five edits
ManyEditsLines(all_edits, lang) ==
    LET pairs == [k \in 1..Len(all_edits) |-> <<start_key(all_edits[k]), all_edits[k]>>]
    IN IF SortRaises(pairs) THEN Raised
       ELSE LET sorted == sorted_pairs(all_edits)
                combined == CombinedContent(sorted, 1)
            IN IF combined.raises THEN Raised
               ELSE LET final_content == JoinNL(combined.v)
                    IN Ret(<< <<" ", " ", "<p>", "<strong>", "Multiple file changes (">>
                                \o NatDigits(Len(all_edits))
                                \o <<" edits)", "</strong>", "</p>">>, <<>> >>
                           \o FencedBlock(ManyFenceLen(final_content,
                                                       has_code_blocks(sorted, 1)),
                                          lang, final_content))

\* the items an iteration yields: the elements of a list, the keys of a
\* dict, the characters of a string
IterItems(v) ==
    CASE v.t = "list" -> v.kv
      [] v.t = "dict" -> [k \in 1..Len(v.kv) |-> JStr(v.kv[k][1])]
      [] v.t = "str" -> [k \in 1..Len(v.s) |-> JStr(<<v.s[k]>>)]
      [] OTHER -> <<>>

\* iterating raises TypeError over a number or None
IterRaises(v) == v.t \in {"num", "null"}

\* every item that is a record counts as an edit, blank or not
EditVerdictKeepsBlank(edit) == IF ~IsDict(edit) THEN "skip" ELSE "keep"

\* lines 305-306 for one item of an edit group: "skip", "keep" or "raise"
EditVerdict(edit) ==
    IF ~IsDict(edit) THEN "skip"
    ELSE LET text_content == JGet(edit, K("text"), EmptyStr)
         IN IF ~Truthy(text_content) THEN "skip"
            ELSE IF ~IsStr(text_content) THEN "raise"
            ELSE IF strip(text_content.s) = <<>> THEN "skip" ELSE "keep"

\* lines 301-307: the edits kept from the items of one group
RECURSIVE KeptOfGroup(_)
KeptOfGroup(items) ==
    IF items = <<>> THEN Ret(<<>>)
    ELSE LET verdict == EditVerdict(Head(items))
             rest == KeptOfGroup(Tail(items))
         IN IF verdict = "raise" \/ rest.raises THEN Raised
            ELSE Ret((IF verdict = "keep" THEN <<Head(items)>> ELSE <<>>) \o rest.v)

\* lines 297-307: all_edits
RECURSIVE CollectEdits(_)
CollectEdits(groups) ==
    IF groups = <<>> THEN Ret(<<>>)
    ELSE LET edit_group == Head(groups)
             here == IF ~Truthy(edit_group) THEN Ret(<<>>)
                     ELSE IF IterRaises(edit_group) THEN Raised
                     ELSE KeptOfGroup(IterItems(edit_group))
             rest == CollectEdits(Tail(groups))
         IN IF here.raises \/ rest.raises THEN Raised ELSE Ret(here.v \o rest.v)

\* lines 284-290: the file name shown in the summary, or a raise
edit_file_name(edit_data) ==
    IF ~IsDict(edit_data) THEN Raised
    ELSE LET uri == JGet(edit_data, K("uri"), JDict(<<>>))
         IN IF ~IsDict(uri) THEN Raised
            ELSE LET fsPath == JGet(uri, K("fsPath"), EmptyStr)
                     file_path == IF Truthy(fsPath) THEN fsPath
                                  ELSE JGet(uri, K("path"), JStr(<<"Unknown file">>))
                 IN IF ~Truthy(file_path) THEN Ret(<<"Unknown file">>)
                    ELSE IF ~IsStr(file_path) THEN Raised
                    ELSE Ret(basename(file_path).v.s)

\* lines 283-503; any exception gives the empty string
format_text_edit_group(edit_data) ==
    LET name == edit_file_name(edit_data)
    IN IF name.raises THEN <<>>
       ELSE LET edits == JGet(edit_data, K("edits"), JList(<<>>))
                kept == IF ~Truthy(edits) THEN Ret(<<>>)
                        ELSE IF IterRaises(edits) THEN Raised
                        ELSE CollectEdits(IterItems(edits))
            IN IF kept.raises \/ kept.v = <<>> THEN <<>>
               ELSE IF \E k \in 1..Len(kept.v) : RangeRaises(kept.v[k]) THEN <<>>
               ELSE LET all_edits == kept.v
                        file_name == name.v
                        lang == IF file_name # <<>> THEN edit_lang(file_name) ELSE <<>>
                        body == IF Len(all_edits) = 1
                                  THEN Ret(OneEditLines(all_edits[1], lang))
                                ELSE IF Len(all_edits) <= 5
                                  THEN Ret(FewEditsLines(all_edits, 1, lang))
                                ELSE ManyEditsLines(all_edits, lang)
                    IN IF body.raises THEN <<>>
                       ELSE JoinNL(<< <<"<details>">>,
                                      <<" ", " ", "<summary>", "ICON", " ", "File Edit: ">> \o file_name
                                         \o <<"</summary>">> >>
                                   \o body.v \o << <<>>, <<"</details>">> >>)
                            \o <<"\n", "\n">>

-----------------------------------------------------------------------------
(* The edit renderer applied to one textEditGroup record *)

\* text.split('\n')
RECURSIVE split_lines(_)
split_lines(text) ==
    IF contains(text, <<"\n">>)
      THEN <<SubSeq(text, 1, find(text, <<"\n">>) - 1)>>
           \o split_lines(SubSeq(text, find(text, <<"\n">>) + 1, Len(text)))
      ELSE <<text>>

EditOf(text, range) == JDict(Pair("text", JStr(text)) \o range)

LineRange(a, b) ==
    Pair("range", JDict(Pair("startLineNumber", JNum(a)) \o Pair("endLineNumber", JNum(b))))

\* the edits a record is made of: inline code, a fence of three backticks
\* on the lines next to it, a run of four backticks far from both, and a
\* blank edit
EEdits ==
    << EditOf(<<"a", BT>>, LineRange(1, 1)),
       EditOf(<<BT, BT, BT>>, LineRange(2, 3)),
       EditOf(<<"a", BT, BT, BT, BT, "\n">>, LineRange(9, 9)),
       EditOf(<<" ">>, LineRange(4, 4)) >>

EUris ==
    { Absent, Pair("uri", JDict(Pair("fsPath", JStr(<<"/", "a", "/", "b", ".py">>)))) }

\* records whose edits are one group of up to MaxEdits edits
EDatas ==
    { JDict(u \o Pair("edits", JList(<<JList([k \in DOMAIN c |-> EEdits[c[k]]])>>))) :
        u \in EUris, c \in UNION {[1..n -> 1..Len(EEdits)] : n \in 1..MaxEdits} }

\* a record of the given groups of edits
EData(uri, groups) == JDict(uri \o Pair("edits", JList(groups)))

\* the edit "a" with the given range
ERanged(range) == JDict(Pair("text", JStr(<<"a">>)) \o Pair("range", range))

\* records that make the renderer raise: a uri or a path of the wrong type,
\* edits or a group that cannot be iterated, a text that is no str, a range
\* that is no record (alone, after an edit already rendered, and among more
\* than five), start lines that cannot be compared
EBadDatas ==
    { EData(Pair("uri", JNum(5)), <<JList(<<EEdits[1]>>)>>),
      EData(Pair("uri", JDict(Pair("fsPath", JNum(5)))), <<JList(<<EEdits[1]>>)>>),
      JDict(Pair("edits", JNum(5))),
      EData(Absent, <<JNum(5)>>),
      EData(Absent, <<JList(<<JDict(Pair("text", JNum(5)))>>)>>),
      EData(Absent, <<JList(<<ERanged(JNum(5))>>)>>),
      EData(Absent, <<JList(<<EEdits[1], ERanged(JStr(<<"a">>))>>)>>),
      EData(Absent, <<JList([k \in 1..6 |->
                               IF k = 4 THEN ERanged(JStr(<<"a">>)) ELSE EEdits[1]])>>),
      EData(Absent, <<JList([k \in 1..6 |->
                               IF k = 4
                                 THEN ERanged(JDict(Pair("startLineNumber", JStr(<<"a">>))
                                                    \o Pair("endLineNumber", JNum(1))))
                                 ELSE EEdits[1]])>>),
      EData(Absent, <<JList([k \in 1..6 |->
                               IF k = 4
                                 THEN ERanged(JDict(Pair("startLineNumber", JNull)))
                                 ELSE EEdits[1]])>>) }

\* records with optional data missing that the renderer shows all the same:
\* no range, a null range, an empty range and one without an end line, items
\* and groups that are skipped, a uri with a path only, six edits without a
\* range; and records without edits
EOddDatas ==
    { EData(Absent, <<JList(<<JDict(Pair("text", JStr(<<"a">>)))>>)>>),
      EData(Absent, <<JList(<<ERanged(JNull)>>)>>),
      EData(Absent, <<JList(<<ERanged(JDict(<<>>)),
                              ERanged(JDict(Pair("startLineNumber", JNum(2))))>>)>>),
      EData(Absent, <<JList(<<JNum(5), JStr(<<"a">>), EEdits[1]>>), JNull, JList(<<>>)>>),
      EData(Pair("uri", JDict(Pair("path", JStr(<<"/", "a", "/", "b", ".md">>)))),
            <<JList(<<EEdits[1]>>), JList(<<EEdits[2]>>)>>),
      EData(Absent, <<JList([k \in 1..6 |-> JDict(Pair("text", JStr(<<"a">>)))])>>),
      EData(Absent, <<>>),
      JDict(<<>>) }

\* edits told apart by their text: one line, two lines that end one line
\* before the next edit, and two single lines further on
ELineEdits ==
    << EditOf(<<"a">>, LineRange(1, 1)), EditOf(<<"b">>, LineRange(3, 4)),
       EditOf(<<"x">>, LineRange(6, 6)), EditOf(<<"y">>, LineRange(9, 9)) >>

\* records of six of these edits in any order
ELineDatas ==
    { EData(Absent, <<JList([k \in 1..6 |-> ELineEdits[c[k]]])>>) :
        c \in [1..6 -> 1..Len(ELineEdits)] }

\* a record of one-line edits "a" at the given lines
EAtLines(at) ==
    EData(Absent, <<JList([k \in DOMAIN at |-> EditOf(<<"a">>, LineRange(at[k], at[k]))])>>)

\* seven edits at lines 1, 2, 10, 11, 12, 20 and 21, in that order and in
\* another
ESevenDatas == { EAtLines(<<1, 2, 10, 11, 12, 20, 21>>), EAtLines(<<20, 1, 11, 2, 21, 10, 12>>) }

\* a record of edits "a" with the given start and end lines
EAtRanges(at) ==
    EData(Absent, <<JList([k \in DOMAIN at |->
                             EditOf(<<"a">>, LineRange(at[k][1], at[k][2]))])>>)

\* six edits of which the first, lines 1 to 5, reaches over the two after it
\* (in that order and in another), and six of which none reaches over another
EOverlapDatas ==
    { EAtRanges(<< <<1, 5>>, <<2, 2>>, <<3, 3>>, <<10, 10>>, <<11, 11>>, <<20, 20>> >>),
      EAtRanges(<< <<3, 3>>, <<20, 20>>, <<1, 5>>, <<11, 11>>, <<2, 2>>, <<10, 10>> >>),
      EAtRanges(<< <<1, 2>>, <<3, 5>>, <<7, 7>>, <<10, 10>>, <<11, 12>>, <<20, 20>> >>) }

EInit ==
    /\ e_pc = "in"
    /\ e_data \in EDatas \cup EBadDatas \cup EOddDatas \cup ELineDatas \cup ESevenDatas
                   \cup EOverlapDatas
    /\ e_out = <<>>
    /\ BIdle /\ JIdle /\ XIdle /\ MIdle /\ TIdle /\ PIdle /\ CIdle

\* text = format_text_edit_group(edit_data)
FormatEdit ==
    /\ e_pc = "in"
    /\ e_out' = format_text_edit_group(e_data)
    /\ e_pc' = "done"
    /\ UNCHANGED <<e_data, NotE>>

ENext == FormatEdit

SpecEdit == EInit /\ [][ENext]_vars

\* the edits of a record that the renderer shows
EKept(edit_data) == CollectEdits(IterItems(JGet(edit_data, K("edits"), JList(<<>>)))).v

\* the text of an edit
ETextOf(edit) == JGet(edit, K("text"), EmptyStr).s

\* the line is a closing fence for an opener of n backticks
EClosesFence(line, n) ==
    /\ LeadingTicks(strip(line)) >= n
    /\ LeadingTicks(strip(line)) = Len(strip(line))

\* the fenced blocks a Markdown reader finds in the lines from i on: a line
\* that starts with three backticks or more opens a block, and the first
\* later line of only backticks, as many or more, closes it
RECURSIVE EBlocks(_, _)
EBlocks(lines, i) ==
    IF i > Len(lines) THEN <<>>
    ELSE IF LeadingTicks(lines[i]) < 3 THEN EBlocks(lines, i + 1)
    ELSE LET n == LeadingTicks(lines[i])
             closers == {j \in (i + 1)..Len(lines) : EClosesFence(lines[j], n)}
             close == CHOOSE j \in closers : \A m \in closers : j <= m
         IN IF closers = {} THEN <<[count |-> n, closed |-> FALSE, last |-> Len(lines)]>>
            ELSE <<[count |-> n, closed |-> TRUE, last |-> close]>>
                 \o EBlocks(lines, close + 1)

\* C3: every edit text that holds a run of k backticks is wrapped in a
\* fence of more than k backticks, whether the record has one edit, two to
\* five, or more than five consolidated into one block: read as Markdown
\* the output has one closed block per edit (one in all when there are more
\* than five), each with a fence longer than every run of backticks in the
\* edit text it wraps, and nothing but the closing lines after the last.
C3_FenceLongerThanRuns ==
    (e_pc = "done" /\ e_out # <<>>) =>
        LET kept == EKept(e_data)
            lines == split_lines(e_out)
            blocks == EBlocks(lines, 1)
        IN /\ Len(blocks) = (IF Len(kept) <= 5 THEN Len(kept) ELSE 1)
           /\ \A k \in 1..Len(kept) :
                LET b == blocks[IF Len(kept) <= 5 THEN k ELSE 1]
                IN b.closed /\ b.count > MaxRun(ETextOf(kept[k]))
           /\ blocks[Len(blocks)].last = Len(lines) - 4

\* C3 witness: a record of more than five shown edits, one of them with a
\* run of four backticks, has been rendered
C3_Witness ==
    /\ e_pc = "done"
    /\ e_out # <<>>
    /\ Len(EKept(e_data)) > 5
    /\ \E k \in 1..Len(EKept(e_data)) : MaxRun(ETextOf(EKept(e_data)[k])) = 4

\* number of positions of text that hold the symbol c
CountOf(text, c) == Cardinality({k \in 1..Len(text) : text[k] = c})

\* the text is one whole block: it opens with <details> on a line of its
\* own, closes with </details> and a blank line, and holds no other
\* <details> or </details>
ECompleteBlock(out) ==
    /\ Len(out) >= 5
    /\ SubSeq(out, 1, 2) = <<"<details>", "\n">>
    /\ SubSeq(out, Len(out) - 3, Len(out)) = <<"\n", "</details>", "\n", "\n">>
    /\ CountOf(out, "<details>") = 1
    /\ CountOf(out, "</details>") = 1

\* C12: format_text_edit_group returns the empty string or one whole
\* <details> block, never a part of one; a record on which the construction
\* raises (a range, a text, a uri or edits of the wrong type, start lines
\* that cannot be sorted) gives the empty string
C12_EmptyOrComplete ==
    (e_pc = "done") =>
        /\ e_out = <<>> \/ ECompleteBlock(e_out)
        /\ e_data \in EBadDatas => e_out = <<>>

\* a record whose second edit has a range of the wrong type, met after the
\* block of the first edit was built, has been rendered
C12_Witness ==
    /\ e_pc = "done"
    /\ e_data = EData(Absent, <<JList(<<EEdits[1], ERanged(JStr(<<"a">>))>>)>>)
    /\ e_data \in EBadDatas
    /\ e_out = <<>>

\* the items of all the groups of a record, in input order
RECURSIVE EItemsOf(_)
EItemsOf(groups) ==
    IF groups = <<>> THEN <<>>
    ELSE (IF IsList(Head(groups)) THEN Head(groups).kv ELSE <<>>) \o EItemsOf(Tail(groups))

\* an edit whose text is neither empty nor blank
EHasText(edit) ==
    /\ IsDict(edit)
    /\ IsStr(JGet(edit, K("text"), EmptyStr))
    /\ strip(JGet(edit, K("text"), EmptyStr).s) # <<>>

\* the edits of a record that are left when those without text are discarded
EQualifying(edit_data) ==
    LET edits == JGet(edit_data, K("edits"), JList(<<>>))
    IN SelectSeq(EItemsOf(IF IsList(edits) THEN edits.kv ELSE <<>>), EHasText)

\* the block b of the lines is a closed fenced block around the content
EBlockWraps(lines, b, content) ==
    LET n == Len(split_lines(content))
    IN /\ b.closed
       /\ b.last - n - 1 >= 1
       /\ LeadingTicks(lines[b.last - n - 1]) = b.count
       /\ JoinNL(SubSeq(lines, b.last - n, b.last - 1)) = content

\* the text of an edit as its block shows it: without one final newline when
\* the edit is alone, without trailing blanks when there are several
EShown(edit, alone) ==
    LET text == ETextOf(edit)
    IN IF ~alone THEN rstrip(text)
       ELSE IF endswith(text, <<"\n">>) THEN SubSeq(text, 1, Len(text) - 1) ELSE text

\* C13: with n the number of edits left when those with empty or blank text
\* are discarded, no edit left gives the empty string, one gives one fenced
\* block around it, two to five give one fenced block each, in input order,
\* and more than five give one fenced block in all; a record whose fields
\* are of the right types is never rendered as the empty string when n >= 1
C13_CountDecidesShape ==
    (e_pc = "done" /\ e_data \notin EBadDatas) =>
        LET kept == EQualifying(e_data)
            n == Len(kept)
            lines == split_lines(e_out)
            blocks == EBlocks(lines, 1)
        IN /\ n = 0 <=> e_out = <<>>
           /\ n >= 1 => Len(blocks) = (IF n <= 5 THEN n ELSE 1)
           /\ (n >= 1 /\ n <= 5) =>
                \A k \in 1..n : EBlockWraps(lines, blocks[k], EShown(kept[k], n = 1))
           /\ n > 5 => blocks[1].closed

\* a record of six edits, one of them blank, has been rendered: five are left
C13_Witness ==
    /\ e_pc = "done"
    /\ Len(EItemsOf(JGet(e_data, K("edits"), JList(<<>>)).kv)) = 6
    /\ Len(EQualifying(e_data)) = 5
    /\ e_out # <<>>

\* the start and the end line of an edit, 0 when it has none
EStart(edit) == JGet(JGet(edit, K("range"), JDict(<<>>)), K("startLineNumber"), JNum(0)).n
EEnd(edit) == JGet(JGet(edit, K("range"), JDict(<<>>)), K("endLineNumber"), JNum(0)).n

\* the edits by start line, those of the same start line in input order
RECURSIVE EByStart(_)
EByStart(edits) ==
    IF edits = <<>> THEN <<>>
    ELSE LET least == Min({EStart(edits[k]) : k \in 1..Len(edits)})
             IsLeast(e) == EStart(e) = least
             IsLater(e) == EStart(e) # least
         IN SelectSeq(edits, IsLeast) \o EByStart(SelectSeq(edits, IsLater))

\* the last index of the merged group that starts at i: the group goes on
\* while the next edit starts at most 2 lines after the end of the one before
RECURSIVE EGroupLast(_, _)
EGroupLast(sorted, i) ==
    IF i < Len(sorted) /\ EStart(sorted[i + 1]) <= EEnd(sorted[i]) + 2
      THEN EGroupLast(sorted, i + 1)
      ELSE i

\* the label and the texts of the group i..j
ESection(sorted, i, j) ==
    << IF i = j /\ EStart(sorted[i]) = EEnd(sorted[i])
         THEN <<"# Line ">> \o NatDigits(EStart(sorted[i])) \o <<":">>
         ELSE <<"# Lines ">> \o NatDigits(EStart(sorted[i])) \o <<"-">>
                \o NatDigits(EEnd(sorted[j])) \o <<":">> >>
    \o [k \in 1..(j - i + 1) |->
          IF i = j THEN rstrip(ETextOf(sorted[i + k - 1])) ELSE strip(ETextOf(sorted[i + k - 1]))]

\* the sections of the groups from the edit i on, a blank line between them
RECURSIVE ESections(_, _)
ESections(sorted, i) ==
    IF i > Len(sorted) THEN <<>>
    ELSE LET j == EGroupLast(sorted, i)
         IN ESection(sorted, i, j)
            \o (IF j < Len(sorted) THEN << <<>> >> ELSE <<>>)
            \o ESections(sorted, j + 1)

\* the lines between the fence lines of the consolidated block
EConsolidated(out) == LET lines == split_lines(out) IN SubSeq(lines, 6, Len(lines) - 5)

\* C14: more than five edits with line numbers are shown sorted by start
\* line and merged greedily, two edits next to each other in that order
\* being in one group exactly when the later one starts at most 2 lines after
\* the end of the one before; inside the one fence each group is a section
\* with its label and the texts of its edits
C14_GreedyMerge ==
    (/\ e_pc = "done" /\ e_data \notin EBadDatas
     /\ Len(EQualifying(e_data)) > 5
     /\ \A k \in 1..Len(EQualifying(e_data)) : EStart(EQualifying(e_data)[k]) > 0) =>
        LET lines == split_lines(e_out)
        IN /\ LeadingTicks(lines[5]) >= 3
           /\ EClosesFence(lines[Len(lines) - 4], LeadingTicks(lines[5]))
           /\ JoinNL(EConsolidated(e_out))
                = JoinNL(ESections(EByStart(EQualifying(e_data)), 1))

\* the seven edits at lines 20, 1, 11, 2, 21, 10, 12 have been rendered as
\* the three sections 1-2, 10-12 and 20-21
C14_Witness ==
    /\ e_pc = "done"
    /\ e_data = EAtLines(<<20, 1, 11, 2, 21, 10, 12>>)
    /\ EConsolidated(e_out)
         = << <<"# Lines ", "1", "-", "2", ":">>, <<"a">>, <<"a">>, <<>>,
              <<"# Lines ", "1", "0", "-", "1", "2", ":">>, <<"a">>, <<"a">>, <<"a">>, <<>>,
              <<"# Lines ", "2", "0", "-", "2", "1", ":">>, <<"a">>, <<"a">> >>

-----------------------------------------------------------------------------
(* extract_content_from_tool_result and format_progress_task *)

\* ''.join(items)
RECURSIVE Concat(_)
Concat(items) == IF items = <<>> THEN <<>> ELSE Head(items) \o Concat(Tail(items))

\* lines 26-50: the texts extract_text_recursive appends for a node, and
\* for the items of a list from k on
RECURSIVE text_parts(_), text_parts_of(_, _)
text_parts(node) ==
    IF IsDict(node)
      THEN (IF /\ HasKey(node, K("text"))
               /\ IsStr(JGet(node, K("text"), JNull))
               /\ strip(JGet(node, K("text"), JNull).s) # <<>>
              THEN <<JGet(node, K("text"), JNull).s>> ELSE <<>>)
           \o (IF HasKey(node, K("children")) /\ IsList(JGet(node, K("children"), JNull))
                 THEN text_parts_of(JGet(node, K("children"), JNull).kv, 1) ELSE <<>>)
           \o (IF HasKey(node, K("value")) /\ IsDict(JGet(node, K("value"), JNull))
                 THEN text_parts(JGet(node, K("value"), JNull)) ELSE <<>>)
           \o (IF HasKey(node, K("node"))
                 THEN text_parts(JGet(node, K("node"), JNull)) ELSE <<>>)
    ELSE IF IsList(node) THEN text_parts_of(node.kv, 1)
    ELSE <<>>

text_parts_of(items, k) ==
    IF k > Len(items) THEN <<>>
    ELSE text_parts(items[k]) \o text_parts_of(items, k + 1)

\* lines 62-68: a fence that wraps the whole text is taken off
unwrap_fence(full_text) ==
    LET lines == split_lines(full_text)
    IN IF /\ startswith(full_text, <<BT, BT, BT>>)
          /\ endswith(full_text, <<BT, BT, BT>>)
          /\ Len(lines) >= 2
          /\ startswith(strip(lines[1]), <<BT, BT, BT>>)
          /\ strip(lines[Len(lines)]) = <<BT, BT, BT>>
         THEN JoinNL(SubSeq(lines, 2, Len(lines) - 1))
         ELSE full_text

\* lines 14-72
extract_content_from_tool_result(tool_result) ==
    IF ~Truthy(tool_result) \/ ~IsDict(tool_result) THEN <<>>
    ELSE LET content == JGet(tool_result, K("content"), JList(<<>>))
         IN IF ~IsList(content) \/ content.kv = <<>> THEN <<>>
            ELSE IF text_parts_of(content.kv, 1) = <<>> THEN <<>>
            ELSE unwrap_fence(strip(Concat(text_parts_of(content.kv, 1))))

\* lines 506-513: the check mark and the value on a line of their own
format_progress_task(task_data) ==
    IF ~IsDict(task_data) THEN Raised
    ELSE LET content == JGet(task_data, K("content"), JDict(<<>>))
             value == JGet(content, K("value"), EmptyStr)
         IN IF IsDict(content) /\ Truthy(value)
              THEN Ret(<<"\n", "CHECK", " ">> \o PyStr(value) \o <<"\n">>)
              ELSE Ret(<<>>)

\* json.dumps(v, indent=2) at nesting depth level
RECURSIVE dumps_indent(_, _), DumpItemsIndent(_, _, _), DumpPairsIndent(_, _, _)
dumps_indent(v, level) ==
    CASE v.t = "list" /\ v.kv # <<>> ->
           <<"[", "\n">> \o DumpItemsIndent(v.kv, 1, level + 1)
           \o <<"\n">> \o Rep(" ", 2 * level) \o <<"]">>
      [] v.t = "dict" /\ v.kv # <<>> ->
           <<"{", "\n">> \o DumpPairsIndent(v.kv, 1, level + 1)
           \o <<"\n">> \o Rep(" ", 2 * level) \o <<"}">>
      [] OTHER -> dumps(v)

DumpItemsIndent(items, k, level) ==
    IF k > Len(items) THEN <<>>
    ELSE (IF k > 1 THEN <<",", "\n">> ELSE <<>>)
         \o Rep(" ", 2 * level) \o dumps_indent(items[k], level)
         \o DumpItemsIndent(items, k + 1, level)

DumpPairsIndent(pairs, k, level) ==
    IF k > Len(pairs) THEN <<>>
    ELSE (IF k > 1 THEN <<",", "\n">> ELSE <<>>)
         \o Rep(" ", 2 * level)
         \o <<QUOTE>> \o EscapeJson(pairs[k][1]) \o <<QUOTE, ":", " ">>
         \o dumps_indent(pairs[k][2], level)
         \o DumpPairsIndent(pairs, k + 1, level)

-----------------------------------------------------------------------------
(* format_tool_invocation_details *)

\* lines 77-82: the invocation message, or the raise of a .get on a value
\* that is no dict; a message that is no str raises at line 88 or line 110
tool_invocation_msg(tool_data) ==
    IF ~IsDict(tool_data) THEN Raised
    ELSE LET past == JGet(tool_data, K("pastTenseMessage"), JDict(<<>>))
             past_tense == JGet(past, K("value"), JStr(<<"Ran tool">>))
             msg == JGet(tool_data, K("invocationMessage"), EmptyStr)
             value == IF IsDict(msg) THEN JGet(msg, K("value"), JStr(<<"Ran tool">>)) ELSE msg
             invocation_msg == IF Truthy(value) THEN value ELSE past_tense
         IN IF ~IsDict(past) THEN Raised
            ELSE IF ~IsStr(invocation_msg) THEN Raised
            ELSE Ret(invocation_msg.s)

\* the first position from k on that holds c, 0 when there is none
FirstAt(chars, c, k) ==
    LET at == {m \in k..Len(chars) : chars[m] = c}
    IN IF at = {} THEN 0 ELSE CHOOSE m \in at : \A n \in at : m <= n

\* line 90: re.search of the file link: the link opener, one character or
\* more that is no ")", and the first ")" after them.  The first group is
\* greedy, so the optional fragment group never takes part.
file_link_match(msg) ==
    LET at == {k \in 1..Len(msg) :
                 /\ msg[k] = "[](file://"
                 /\ k + 1 <= Len(msg) /\ msg[k + 1] # ")"
                 /\ FirstAt(msg, ")", k + 2) # 0}
        start == CHOOSE k \in at : \A m \in at : k <= m
    IN IF at = {} THEN [found |-> FALSE, start |-> 0, end |-> 0]
       ELSE [found |-> TRUE, start |-> start, end |-> FirstAt(msg, ")", start + 2)]

\* str.replace('Reading ', 'Read ')
reading_to_read(msg) ==
    [k \in 1..Len(msg) |-> IF msg[k] = "Reading " THEN "Read " ELSE msg[k]]

\* lines 88-110: the message shown in the summary line
display_msg(invocation_msg) ==
    LET m == file_link_match(invocation_msg)
        file_path == SubSeq(invocation_msg, m.start + 1, m.end - 1)
        remaining_text == SubSeq(invocation_msg, m.end + 1, Len(invocation_msg))
    IN reading_to_read(
         IF m.found
           THEN <<"Read ", "*", "*">> \o AfterLastSlash(file_path) \o <<"*", "*">>
                \o (IF strip(remaining_text) # <<>> THEN remaining_text ELSE <<>>)
           ELSE invocation_msg)

\* 'Read' in original_invocation_msg
MentionsRead(msg) == \E k \in 1..Len(msg) : msg[k] \in {"Read ", "Reading "}

\* lines 131-136: the call's arguments are parsed; "none" when the call is
\* passed over, "hit" with the content of its result when its file path is
\* in the message and its id is in tool_call_results
match_file_path(tool_call, args_dict, original_invocation_msg, tool_call_results) ==
    LET none == [hit |-> FALSE, content |-> <<>>]
        file_path == JGet(args_dict.v, K("filePath"), EmptyStr)
        tool_call_id == JGet(tool_call, K("id"), EmptyStr)
    IN IF ~args_dict.ok \/ ~IsDict(args_dict.v) THEN none
       ELSE IF ~Truthy(file_path) \/ ~IsStr(file_path) THEN none
       ELSE IF ~contains(original_invocation_msg, file_path.s) THEN none
       ELSE IF ~IsDict(tool_call_results) \/ ~IsStr(tool_call_id) THEN none
       ELSE IF ~HasKey(tool_call_results, tool_call_id.s) THEN none
       ELSE [hit |-> TRUE,
             content |-> extract_content_from_tool_result(
                             JGet(tool_call_results, tool_call_id.s, JNull))]

\* lines 120-139 for one tool call
match_tool_call(tool_call, original_invocation_msg, tool_call_results) ==
    LET none == [hit |-> FALSE, content |-> <<>>]
        arguments == JGet(tool_call, K("arguments"), EmptyStr)
    IN IF ~IsDict(tool_call) THEN none
       ELSE IF JGet(tool_call, K("name"), EmptyStr) # JStr(<<"read_file">>) THEN none
       ELSE IF ~MentionsRead(original_invocation_msg) THEN none
       ELSE IF ~IsStr(arguments) THEN none
       ELSE match_file_path(tool_call, loads(arguments.s), original_invocation_msg,
                            tool_call_results)

RECURSIVE scan_tool_calls(_, _, _, _)

\* lines 135-137: the inner loop stops at a call that hits
after_tool_call(r, calls, k, original_invocation_msg, tool_call_results) ==
    IF r.hit THEN r.content
    ELSE scan_tool_calls(calls, k + 1, original_invocation_msg, tool_call_results)

\* lines 119-139: the inner loop from the call k on
scan_tool_calls(calls, k, original_invocation_msg, tool_call_results) ==
    IF k > Len(calls) THEN <<>>
    ELSE after_tool_call(match_tool_call(calls[k], original_invocation_msg,
                                         tool_call_results),
                         calls, k, original_invocation_msg, tool_call_results)

RECURSIVE scan_rounds(_, _, _, _)

\* lines 140-141: the outer loop stops at a round that gave content
after_round(content, rounds, k, original_invocation_msg, tool_call_results) ==
    IF content # <<>> THEN Ret(content)
    ELSE scan_rounds(rounds, k + 1, original_invocation_msg, tool_call_results)

\* lines 117-141: the outer loop from the round k on; iterating toolCalls
\* raises when it is a number or None
scan_rounds(rounds, k, original_invocation_msg, tool_call_results) ==
    IF k > Len(rounds) THEN Ret(<<>>)
    ELSE IF ~IsDict(rounds[k]) \/ ~HasKey(rounds[k], K("toolCalls"))
      THEN scan_rounds(rounds, k + 1, original_invocation_msg, tool_call_results)
    ELSE IF IterRaises(JGet(rounds[k], K("toolCalls"), JNull)) THEN Raised
    ELSE after_round(scan_tool_calls(IterItems(JGet(rounds[k], K("toolCalls"), JNull)), 1,
                                     original_invocation_msg, tool_call_results),
                     rounds, k, original_invocation_msg, tool_call_results)

\* lines 113-141: tool_result_content; tool_call_results is the dict the
\* parser builds, or None
correlated_content(original_invocation_msg, tool_call_results, tool_call_rounds) ==
    IF ~Truthy(tool_call_results) \/ ~Truthy(tool_call_rounds) THEN Ret(<<>>)
    ELSE IF IterRaises(tool_call_rounds) THEN Raised
    ELSE scan_rounds(IterItems(tool_call_rounds), 1,
                     original_invocation_msg, tool_call_results)

\* the end of the run of characters of a class that starts at i (i - 1 when
\* the run is empty), for the classes \s, \w, \d, the "#" and the backtick
RECURSIVE RunEnd(_, _, _)
RunEnd(chars, i, class) ==
    IF /\ i <= Len(chars)
       /\ CASE class = "s" -> IsSpace(chars[i])
            [] class = "w" -> IsWord(chars[i])
            [] class = "d" -> IsDigit(chars[i])
            [] class = "#" -> chars[i] = "#"
            [] OTHER -> chars[i] = BT
      THEN RunEnd(chars, i + 1, class) ELSE i - 1

\* no newline in chars[a..b]
OneLine(chars, a, b) == \A k \in a..b : chars[k] # "\n"

\* "Lines \d+ to \d+" starts at l; the position after the first digit of
\* the second number, 0 when the words do not match
lines_range_at(chars, l) ==
    LET d1 == RunEnd(chars, l + 1, "d")
    IN IF /\ chars[l] = "Lines "
          /\ d1 >= l + 1
          /\ d1 + 2 <= Len(chars)
          /\ chars[d1 + 1] = " to "
          /\ IsDigit(chars[d1 + 2])
         THEN d1 + 3 ELSE 0

\* ":\s*(backticks)(\w+)\s*\n" starts at c; the position of the newline
\* that ends the match, 0 when the tail does not match
header_tail_at(chars, c) ==
    LET s1 == RunEnd(chars, c + 1, "s")
        t == RunEnd(chars, s1 + 1, "t")
        w == RunEnd(chars, t + 1, "w")
        s2 == RunEnd(chars, w + 1, "s")
        nls == {k \in (w + 1)..s2 : chars[k] = "\n"}
    IN IF chars[c] = ":" /\ t > s1 /\ w > t /\ nls # {}
         THEN CHOOSE k \in nls : \A m \in nls : m <= k
         ELSE 0

\* lines 157-158: re.match of the file header at the start of the content:
\* "File:", the words "Lines m to n" later on the first line, a ":" later
\* still, and on from it a fence opener with a language, up to the end of
\* its line.  The lazy parts choose the first ":" that works.
file_header_match(content) ==
    LET colons == {c \in 2..Len(content) :
                     /\ header_tail_at(content, c) # 0
                     /\ \E l \in 2..(c - 1) :
                          /\ lines_range_at(content, l) # 0
                          /\ lines_range_at(content, l) <= c
                          /\ OneLine(content, 2, c)}
        c == CHOOSE k \in colons : \A m \in colons : k <= m
        s1 == RunEnd(content, c + 1, "s")
        t == RunEnd(content, s1 + 1, "t")
    IN IF content = <<>> \/ content[1] # "File:" \/ colons = {}
         THEN [found |-> FALSE, ticks |-> 0, lang |-> <<>>, end |-> 0]
         ELSE [found |-> TRUE, ticks |-> t - s1,
               lang |-> SubSeq(content, t + 1, RunEnd(content, t + 1, "w")),
               end |-> header_tail_at(content, c)]

\* the content under a file header in a fence as long as the header's
header_block_same_ticks(content, m) ==
    FencedBlock(m.ticks, m.lang, rstrip(SubSeq(content, m.end + 1, Len(content))))

\* lines 160-185: the content under a file header, in a fence of its own
header_block(content, m) ==
    LET rest == SubSeq(content, m.end + 1, Len(content))
        simplified_content ==
            IF endswith(rstrip(rest), Rep(BT, m.ticks))
              THEN rstrip(SubSeq(rstrip(rest), 1, Len(rstrip(rest)) - m.ticks))
              ELSE rest
    IN FencedBlock(Max(3, MaxRun(simplified_content) + 1), m.lang,
                   rstrip(simplified_content))

\* lines 215-226
lang_map(ext) ==
    CASE ext = <<".md">> -> <<"markdown">>
      [] ext = <<".py">> -> <<"python">>
      [] ext = <<".js">> -> <<"javascript">>
      [] ext = <<".json">> -> <<"json">>
      [] ext = <<".yaml">> -> <<"yaml">>
      [] ext = <<".yml">> -> <<"yaml">>
      [] ext = <<".html">> -> <<"html">>
      [] ext = <<".css">> -> <<"css">>
      [] ext = <<".sh">> -> <<"bash">>
      [] ext = <<".txt">> -> <<"text">>
      [] OTHER -> <<>>

\* the extensions that are one symbol: a dot and the word after it
ExtSymbols ==
    {".md", ".py", ".js", ".json", ".yaml", ".yml", ".html", ".css", ".sh", ".txt"}

\* lines 208-212: the first dot with a word after it, in a message that
\* holds a file URI
msg_file_ext(original_invocation_msg) ==
    LET msg == original_invocation_msg
        at == {k \in 1..Len(msg) :
                 \/ msg[k] \in ExtSymbols
                 \/ msg[k] = "." /\ k + 1 <= Len(msg) /\ IsWord(msg[k + 1])}
        k == CHOOSE i \in at : \A j \in at : i <= j
    IN IF (\A i \in 1..Len(msg) : msg[i] # "[](file://") \/ at = {} THEN <<>>
       ELSE SubSeq(msg, k, RunEnd(msg, k + 1, "w"))

\* lines 194-231: content that has no file header
plain_block(content, original_invocation_msg) ==
    IF contains(content, <<BT, BT, BT>>)
      THEN FencedBlock(MaxRun(content) + 1, <<"markdown">>, rstrip(content))
      ELSE FencedBlock(3, lang_map(msg_file_ext(original_invocation_msg)), rstrip(content))

\* lines 179-182 and 188-191
details_head(invocation_msg) ==
    << <<"<details>">>,
       <<" ", " ", "<summary>">> \o invocation_msg \o <<"</summary>">> >>

\* lines 239-278: the block built from resultDetails when there is no
\* content of a tool result
input_output_block(invocation_msg, input_data, output_data) ==
    LET parsed == loads(input_data.s)
        input_obj == IF IsStr(input_data) THEN parsed.v ELSE input_data
        first == output_data.kv[1]
        output_value == IF IsDict(first) THEN JGet(first, K("value"), EmptyStr) ELSE first
    IN IF ~Truthy(input_data) THEN <<>>
       ELSE IF IsStr(input_data) /\ ~parsed.ok
         THEN JoinNL(details_head(invocation_msg)
                     \o << <<" ", " ", "<p>", "Completed with input: ">>
                             \o input_data.s \o <<"</p>">>,
                           <<"</details>">> >>)
              \o <<"\n", "\n">>
       ELSE JoinNL(details_head(invocation_msg)
                   \o << <<" ", " ", "<p>", "Input", "</p>">>, <<>>,
                         <<BT, BT, BT, "json">>, dumps_indent(input_obj, 0),
                         <<BT, BT, BT>>, <<>> >>
                   \o (IF IsList(output_data) /\ output_data.kv # <<>>
                         THEN << <<" ", " ", "<p>", "Output", "</p>">>, <<>>,
                                 <<BT, BT, BT, "json">>, PyStr(output_value),
                                 <<BT, BT, BT>>, <<>> >>
                         ELSE <<>>)
                   \o << <<"</details>">> >>)
            \o <<"\n", "\n">>

-----------------------------------------------------------------------------
(* process_special_markers *)

\* a failed placeholder left in the text as it was
marker_failure_keeps_payload(delim, payload) == <<delim>> \o payload \o <<delim>>

\* lines 523-524, 533-534, 543-544: except: return ""
marker_failure(delim, payload) == <<>>

\* [a-z] and [A-Z]: the symbols that end in a small letter and those that
\* start with a capital
IsLower(c) ==
    c \in {"a", "b", "c", "n", "x", "y", "p", "markdown", "python", "json", "text",
           "javascript", "yaml", "html", "css", "bash", "Ran tool", "Unknown file",
           "Input", "Output", "kind"}
IsUpper(c) ==
    c \in {"A", "B", "Read ", "Reading ", "Ran tool", "Unknown file", "File:",
           "Lines ", "Line ", "Input", "Output"}

\* line 551 at i: the position of the capital that ends the match, 0 when
\* there is no match
sentence_end_at(text, i) ==
    LET e == RunEnd(text, i + 2, "s")
    IN IF /\ IsLower(text[i])
          /\ e + 3 <= Len(text)
          /\ text[i + 1] \in {".", "!", "?"}
          /\ text[e + 1] = "*" /\ text[e + 2] = "*" /\ IsUpper(text[e + 3])
         THEN e + 3 ELSE 0

\* line 551: a blank line between a sentence end and a bold paragraph
RECURSIVE sentence_spacing(_, _)
sentence_spacing(text, i) ==
    LET at == {k \in i..Len(text) : sentence_end_at(text, k) # 0}
        k == Min(at)
        e == sentence_end_at(text, k)
    IN IF at = {} THEN SubSeq(text, i, Len(text))
       ELSE SubSeq(text, i, k + 1) \o <<"\n", "\n", "*", "*", text[e]>>
            \o sentence_spacing(text, e + 1)

\* line 555 at a newline at i: where the <details> of the match is, 0 when
\* there is no match.  The line starts with a number and a dot or with "#"s;
\* blanks follow, then one character or more on one line, then <details>.
item_details_at(text, i) ==
    LET d == RunEnd(text, i + 1, "d")
        h == RunEnd(text, i + 1, "#")
        q == IF d > i /\ d + 1 <= Len(text) /\ text[d + 1] = "." THEN d + 2
             ELSE IF h > i THEN h + 1 ELSE 0
        se == RunEnd(text, q, "s")
        far == {k \in (se + 2)..Len(text) :
                  text[k] = "<details>" /\ OneLine(text, se + 1, k - 1)}
    IN IF text[i] # "\n" \/ q = 0 \/ se < q THEN 0
       ELSE IF far # {} THEN CHOOSE k \in far : \A m \in far : k <= m
       ELSE IF /\ se >= q + 1 /\ text[se] = " "
               /\ se + 1 <= Len(text) /\ text[se + 1] = "<details>"
         THEN se + 1
       ELSE 0

\* line 555: a blank line before a <details> that follows a list item or a
\* header on its line
RECURSIVE item_details_spacing(_, _)
item_details_spacing(text, i) ==
    LET at == {k \in i..Len(text) : item_details_at(text, k) # 0}
        d == item_details_at(text, Min(at))
    IN IF at = {} THEN SubSeq(text, i, Len(text))
       ELSE SubSeq(text, i, d - 1) \o <<"\n", "\n", "<details>">>
            \o item_details_spacing(text, d + 1)

\* line 557: a blank line before a <details> that follows any character
\* but a newline
RECURSIVE details_spacing(_, _)
details_spacing(text, i) ==
    LET at == {k \in i..(Len(text) - 1) : text[k] # "\n" /\ text[k + 1] = "<details>"}
    IN IF at = {} THEN SubSeq(text, i, Len(text))
       ELSE SubSeq(text, i, Min(at)) \o <<"\n", "\n", "<details>">>
            \o details_spacing(text, Min(at) + 2)

\* lines 548-557
fix_spacing(text) ==
    details_spacing(item_details_spacing(sentence_spacing(text, 1), 1), 1)

RECURSIVE process_special_markers(_, _, _, _)
RECURSIVE format_tool_invocation_details(_, _, _, _)
RECURSIVE marker_pass(_, _, _, _, _, _)
RECURSIVE replace_marker(_, _, _, _, _)

\* the renderer returned or raised: its text, or what the except clause gives
rendered_or_failure(delim, payload, r) ==
    IF r.raises THEN marker_failure(delim, payload) ELSE r.v

\* json.loads returned or raised: the renderer's text, or what the except
\* clause gives
replace_parsed(delim, payload, data, tool_call_results, tool_call_rounds, depth) ==
    IF ~data.ok THEN marker_failure(delim, payload)
    ELSE rendered_or_failure(delim, payload,
           CASE delim = TEG -> Ret(format_text_edit_group(data.v))
             [] delim = TI ->
                  format_tool_invocation_details(data.v, tool_call_results,
                                                 tool_call_rounds, depth)
             [] OTHER -> format_progress_task(data.v))

\* lines 519-524, 529-534, 539-544: what replaces one placeholder
replace_marker(delim, payload, tool_call_results, tool_call_rounds, depth) ==
    replace_parsed(delim, payload, loads(payload), tool_call_results,
                   tool_call_rounds, depth)

\* one match of re.sub and the matches after it
marker_pass_from(text, delim, from, m, tool_call_results, tool_call_rounds, depth) ==
    IF ~m.found THEN SubSeq(text, from, Len(text))
    ELSE SubSeq(text, from, m.start - 1)
         \o replace_marker(delim, m.payload, tool_call_results, tool_call_rounds, depth)
         \o marker_pass(text, delim, m.end + 1, tool_call_results, tool_call_rounds, depth)

\* lines 526, 536, 546: re.sub over the placeholders of one delimiter, from
\* position from on
marker_pass(text, delim, from, tool_call_results, tool_call_rounds, depth) ==
    marker_pass_from(text, delim, from, span_search(text, delim, from),
                     tool_call_results, tool_call_rounds, depth)

\* lines 157-185 or 186-231, and the lines around the block
content_block_for(m, tool_result_content, original_invocation_msg) ==
    JoinNL(details_head(display_msg(original_invocation_msg)) \o << <<>> >>
           \o (IF m.found THEN header_block(tool_result_content, m)
               ELSE plain_block(tool_result_content, original_invocation_msg))
           \o << <<>>, <<"</details>">> >>)
    \o <<"\n", "\n">>

\* lines 155-236
content_block(tool_result_content, original_invocation_msg) ==
    content_block_for(file_header_match(tool_result_content), tool_result_content,
                      original_invocation_msg)

\* line 153 returned or raised
nested_content_block(nested, original_invocation_msg) ==
    IF nested.raises THEN Raised
    ELSE Ret(content_block(nested.v, original_invocation_msg))

\* lines 144-278, with the content found for the invocation
tool_details_for(found, tool_data, original_invocation_msg, tool_call_results, tool_call_rounds, depth) ==
    LET result_details == JGet(tool_data, K("resultDetails"), JDict(<<>>))
    IN IF found.raises THEN Raised
       ELSE IF ~IsDict(result_details) THEN Raised
       ELSE IF strip(found.v) = <<>>
         THEN Ret(input_output_block(display_msg(original_invocation_msg),
                                     JGet(result_details, K("input"), EmptyStr),
                                     JGet(result_details, K("output"), JList(<<>>))))
       ELSE IF contains(found.v, <<TI>>)
         THEN nested_content_block(
                process_special_markers(found.v, tool_call_results, tool_call_rounds,
                                        depth + 1),
                original_invocation_msg)
       ELSE Ret(content_block(found.v, original_invocation_msg))

\* lines 84-278, with the invocation message
tool_details_of(msg, tool_data, tool_call_results, tool_call_rounds, depth) ==
    IF msg.raises THEN Raised
    ELSE tool_details_for(correlated_content(msg.v, tool_call_results, tool_call_rounds),
                          tool_data, msg.v, tool_call_results, tool_call_rounds, depth)

\* lines 75-278
format_tool_invocation_details(tool_data, tool_call_results, tool_call_rounds, depth) ==
    tool_details_of(tool_invocation_msg(tool_data), tool_data, tool_call_results,
                    tool_call_rounds, depth)

RECURSIVE marker_passes(_, _, _, _, _)

\* lines 526, 536, 546: the passes for the delimiters of delims, in turn
marker_passes(text, delims, tool_call_results, tool_call_rounds, depth) ==
    IF delims = <<>> THEN text
    ELSE marker_passes(marker_pass(text, Head(delims), 1, tool_call_results,
                                   tool_call_rounds, depth),
                       Tail(delims), tool_call_results, tool_call_rounds, depth)

\* lines 516-559; the call raises when it is nested too deep
process_special_markers(text, tool_call_results, tool_call_rounds, depth) ==
    IF depth > MaxNesting THEN Raised
    ELSE Ret(fix_spacing(marker_passes(text, <<TEG, TI, PT>>, tool_call_results,
                                       tool_call_rounds, depth)))

-----------------------------------------------------------------------------
(* process_special_markers applied to a text, pass by pass *)

\* a placeholder as the extractor writes it
MMarker(delim, v) == <<delim>> \o dumps(v) \o <<delim>>

\* a textEditGroup record with one edit
MEditRecord ==
    JDict(Pair("uri", JDict(Pair("fsPath", JStr(<<"/", "a", "/", "b", ".py">>))))
          \o Pair("edits", JList(<<JList(<<EditOf(<<"a", BT>>, LineRange(1, 1))>>)>>)))

\* a tool invocation that reads the file of the tool call in the context
MReadRecord ==
    JDict(Pair("invocationMessage",
               JStr(<<"Reading ", "[](file://", "/", "a", "/", "b", ".py", ")">>))
          \o Pair("resultDetails", JDict(Pair("input", JStr(<<"{", "}">>)))))

\* a tool invocation that no tool call matches
MRunRecord ==
    JDict(Pair("invocationMessage", JStr(<<"x">>))
          \o Pair("resultDetails", JDict(Pair("input", JStr(dumps(JDict(Pair("a", JNum(1)))))))))

MTaskRecord == JDict(Pair("content", JDict(Pair("value", JStr(<<"a", "b">>)))))

\* the placeholders of a text: for each delimiter some whose payload is
\* cut short, some whose payload is JSON of the wrong shape, and the
\* records above
MMarkers ==
    { <<TEG, "{", "x", TEG>>, MMarker(TEG, JNum(5)), MMarker(TEG, MEditRecord),
      <<TI, "{", "x", TI>>, MMarker(TI, JList(<<JNum(1)>>)),
      MMarker(TI, JDict(Pair("pastTenseMessage", JNull))),
      MMarker(TI, MReadRecord), MMarker(TI, MRunRecord),
      <<PT, "{", "x", PT>>, MMarker(PT, JNull), MMarker(PT, MTaskRecord) }

MBefore == { <<>>, <<"a", ".">>, <<"\n", "#", " ", "x">> }
MAfter == { <<>>, <<"b">>, <<"<details>", "<details>">> }

MTexts ==
    { pre \o p1 \o p2 \o post :
        pre \in MBefore, p1 \in MMarkers, p2 \in MMarkers \cup {<<>>}, post \in MAfter }

\* tool_call_results with the result c1 holding the text, and the round
\* whose tool call c1 read /a/b.py
MContext(text) ==
    [results |->
       JDict(Pair("c1", JDict(Pair("content", JList(<<JDict(Pair("text", JStr(text)))>>))))),
     rounds |->
       JList(<<JDict(Pair("toolCalls", JList(<<
                JDict(Pair("id", JStr(<<"c1">>))
                      \o Pair("name", JStr(<<"read_file">>))
                      \o Pair("arguments",
                              JStr(dumps(JDict(Pair("filePath",
                                                    JStr(<<"/", "a", "/", "b", ".py">>)))))))
              >>)))>>)]

\* no context; a file of plain lines; a file under the header of the read
\* tool; a file that holds an edit placeholder; a file that holds a tool
\* placeholder and an edit placeholder; a file that holds the placeholder of
\* the tool invocation that reads this very file
MContexts ==
    { [results |-> JNull, rounds |-> JNull],
      MContext(<<"x">> \o MMarker(TI, MReadRecord)),
      MContext(<<"x", "\n", "y">>),
      MContext(<<"File:", " ", "b", ".py", ".", " ", "Lines ", "1", " to ", "2", ":", " ",
                 BT, BT, BT, "python", "\n", "x", "\n", BT, BT, BT>>),
      MContext(<<"x">> \o MMarker(TEG, MEditRecord)),
      MContext(<<"x">> \o MMarker(TI, MRunRecord) \o MMarker(TEG, MEditRecord)) }

MInit ==
    /\ m_pc = "in"
    /\ m_ctx \in MContexts
    /\ m_text \in MTexts
    /\ m_before = <<>>
    /\ BIdle /\ JIdle /\ XIdle /\ EIdle /\ TIdle /\ PIdle /\ CIdle

\* line 526
PassEdits ==
    /\ m_pc = "in"
    /\ m_text' = marker_pass(m_text, TEG, 1, m_ctx.results, m_ctx.rounds, 1)
    /\ m_before' = m_text
    /\ m_pc' = "edits"
    /\ UNCHANGED <<m_ctx, NotM>>

\* line 536
PassTools ==
    /\ m_pc = "edits"
    /\ m_text' = marker_pass(m_text, TI, 1, m_ctx.results, m_ctx.rounds, 1)
    /\ m_before' = m_text
    /\ m_pc' = "tools"
    /\ UNCHANGED <<m_ctx, NotM>>

\* line 546
PassTasks ==
    /\ m_pc = "tools"
    /\ m_text' = marker_pass(m_text, PT, 1, m_ctx.results, m_ctx.rounds, 1)
    /\ m_before' = m_text
    /\ m_pc' = "tasks"
    /\ UNCHANGED <<m_ctx, NotM>>

\* lines 551-559
FixSpacing ==
    /\ m_pc = "tasks"
    /\ m_text' = fix_spacing(m_text)
    /\ m_before' = m_text
    /\ m_pc' = "done"
    /\ UNCHANGED <<m_ctx, NotM>>

MNext == PassEdits \/ PassTools \/ PassTasks \/ FixSpacing

SpecMarkers == MInit /\ [][MNext]_vars

\* the delimiters of the three passes
MDelims == {TEG, TI, PT}

\* C9: once process_special_markers is through, the text holds no span
\* delimited by __TEXT_EDIT_GROUP__, __TOOL_INVOCATION__ or
\* __PROGRESS_TASK__, whether the placeholder stood in the text or came in
\* with a correlated tool result
C9_NoPlaceholderLeft ==
    (m_pc = "done") => \A d \in MDelims : ~span_search(m_text, d, 1).found

\* the delimiter of the pass that was made last
PassDelim ==
    CASE m_pc = "edits" -> TEG
      [] m_pc = "tools" -> TI
      [] OTHER -> PT

\* a payload that is no JSON, or JSON that is no record, or the record of a
\* tool invocation whose pastTenseMessage is null
BadPayload(delim, payload) ==
    LET data == loads(payload)
    IN \/ ~data.ok
       \/ ~IsDict(data.v)
       \/ delim = TI /\ JGet(data.v, K("pastTenseMessage"), EmptyStr) = JNull

RECURSIVE OutsideKept(_, _, _, _, _)

\* out from position j on is before from position i on with nothing in the
\* place of each placeholder whose payload is bad and some text in the place
\* of each other placeholder
OutsideKept(before, out, delim, i, j) ==
    LET m == span_search(before, delim, i)
        gap == m.start - i
        rest == Len(out) - (j + gap) + 1
    IN IF ~m.found
         THEN SubSeq(out, j, Len(out)) = SubSeq(before, i, Len(before))
       ELSE /\ rest >= 0
            /\ SubSeq(out, j, j + gap - 1) = SubSeq(before, i, m.start - 1)
            /\ IF BadPayload(delim, m.payload)
                 THEN OutsideKept(before, out, delim, m.end + 1, j + gap)
                 ELSE \E n \in 0..rest :
                        OutsideKept(before, out, delim, m.end + 1, j + gap + n)

\* C10: after each of the three passes, every placeholder of the pass whose
\* payload does not parse, or parses to a value its renderer cannot handle,
\* has left nothing in the text, and the text outside the placeholders of
\* the pass is what it was before the pass
C10_BadPayloadErased ==
    (m_pc \in {"edits", "tools", "tasks"}) =>
        OutsideKept(m_before, m_text, PassDelim, 1, 1)

\* the tool pass has met a placeholder whose payload is cut short, between
\* other text, and one more placeholder after it
C10_Witness ==
    /\ m_pc = "tools"
    /\ LET m == span_search(m_before, TI, 1)
       IN /\ m.found /\ m.start > 1
          /\ ~loads(m.payload).ok
          /\ span_search(m_before, TI, m.end + 1).found
          /\ m_before[Len(m_before)] = "b"
          /\ m_text # m_before

-----------------------------------------------------------------------------
(* format_tool_invocation_details applied to one record *)

\* the file of the tool records
TPath == <<"/", "a", "/", "b", "/", "c", ".py">>

\* a message that links the file, with the text after the path
TLink(tail) == <<"Reading ", "[](file://">> \o TPath \o tail

\* invocationMessage: absent, null, a number, empty, a link with a fragment,
\* a link with a fragment that holds a slash, a link followed by text, a
\* record with a value, a record without one, a plain str
TMsgOpt ==
    { Absent, Pair("invocationMessage", JNull), Pair("invocationMessage", JNum(5)),
      Pair("invocationMessage", EmptyStr),
      Pair("invocationMessage", JStr(TLink(<<"#", "5", "-", "9", ")">>))),
      Pair("invocationMessage", JStr(TLink(<<"#", "5", "/", "9", ")">>))),
      Pair("invocationMessage", JStr(TLink(<<"#", "1", ")", " ", "x">>))),
      Pair("invocationMessage", JDict(Pair("value", JStr(<<"Reading ", "x">>)))),
      Pair("invocationMessage", JDict(<<>>)), Pair("invocationMessage", JStr(<<"x">>)) }

\* pastTenseMessage: absent, null, a record with a value, a str
TPastOpt ==
    { Absent, Pair("pastTenseMessage", JNull),
      Pair("pastTenseMessage", JDict(Pair("value", JStr(<<"A">>)))),
      Pair("pastTenseMessage", JStr(<<"a">>)) }

\* resultDetails: absent, null, a number, an input that is JSON, an input
\* that is cut short, an input that is a record already with an output
TDetailsOpt ==
    { Absent, Pair("resultDetails", JNull), Pair("resultDetails", JNum(5)),
      Pair("resultDetails", JDict(Pair("input", JStr(<<"{", "}">>)))),
      Pair("resultDetails", JDict(Pair("input", JStr(<<"{", "x">>)))),
      Pair("resultDetails",
           JDict(Pair("input", JDict(Pair("a", JNum(1))))
                 \o Pair("output", JList(<<JDict(Pair("value", JStr(<<"b">>)))>>)))) }

TRecords == { JDict(p \o i \o d) : p \in TPastOpt, i \in TMsgOpt, d \in TDetailsOpt }

\* tool_call_results with the result c1 holding the text, and the round
\* whose tool call c1 read the file
TContext(text) ==
    [results |->
       JDict(Pair("c1", JDict(Pair("content", JList(<<JDict(Pair("text", JStr(text)))>>))))),
     rounds |->
       JList(<<JDict(Pair("toolCalls", JList(<<
                JDict(Pair("id", JStr(<<"c1">>))
                      \o Pair("name", JStr(<<"read_file">>))
                      \o Pair("arguments",
                              JStr(dumps(JDict(Pair("filePath", JStr(TPath)))))))
              >>)))>>)]

\* the file under the header of the read tool, in a fence of 4 backticks,
\* with a fence of 3 backticks in it
THeaderText ==
    <<"File:", " ", "c", ".py", ".", " ", "Lines ", "1", " to ", "2", ":", " ",
      BT, BT, BT, BT, "python", "\n", "x", "\n", BT, BT, BT, "\n", "y", "\n",
      BT, BT, BT, BT>>

\* no context, the file as two plain lines, the file under a header, a file
\* that holds a fence of 4 backticks, a file that holds a run of 2 backticks
TContexts ==
    { [results |-> JNull, rounds |-> JNull], TContext(<<"x", "\n", "y">>),
      TContext(THeaderText), TContext(<<"x", "\n", BT, BT, BT, BT, "\n", "y">>),
      TContext(<<"x", " ", BT, BT, "y", BT, BT>>) }

TInit ==
    /\ t_pc = "in"
    /\ t_data \in TRecords
    /\ t_ctx \in TContexts
    /\ t_res = <<>>
    /\ BIdle /\ JIdle /\ XIdle /\ EIdle /\ MIdle /\ PIdle /\ CIdle

\* format_tool_invocation_details(tool_data, tool_call_results, tool_call_rounds)
FormatTool ==
    /\ t_pc = "in"
    /\ t_res' = format_tool_invocation_details(t_data, t_ctx.results, t_ctx.rounds, 1)
    /\ t_pc' = "done"
    /\ UNCHANGED <<t_data, t_ctx, NotT>>

TNext == FormatTool

SpecTool == TInit /\ [][TNext]_vars

\* the raw input of a record whose resultDetails holds a str that is no JSON;
\* <<>> for any other record
TBadInput(tool_data) ==
    LET details == JGet(tool_data, K("resultDetails"), JNull)
        input == IF IsDict(details) THEN JGet(details, K("input"), JNull) ELSE JNull
    IN IF IsStr(input) /\ ~loads(input.s).ok THEN input.s ELSE <<>>

\* the block is the one-line fallback for the raw input
TIsFallback(out, raw) ==
    LET lines == split_lines(out)
    IN /\ Len(lines) = 5
       /\ lines[1] = <<"<details>">>
       /\ startswith(lines[2], <<" ", " ", "<summary>">>)
       /\ lines[3] = <<" ", " ", "<p>", "Completed with input: ">> \o raw \o <<"</p>">>
       /\ lines[4] = <<"</details>">>
       /\ lines[5] = <<>>

\* C11: format_tool_invocation_details returns for every record, whatever
\* its pastTenseMessage, invocationMessage and resultDetails are; and when
\* there is no tool result to show and the declared input is no JSON, what
\* it returns is the one-line block "Completed with input: <raw>"
C11_NeverRaises ==
    (t_pc = "done") =>
        /\ ~t_res.raises
        /\ (TBadInput(t_data) # <<>> /\ t_ctx.results = JNull)
             => TIsFallback(t_res.v, TBadInput(t_data))

\* the message of a record when it is a str, <<>> otherwise
TMessage(tool_data) ==
    LET msg == JGet(tool_data, K("invocationMessage"), EmptyStr)
        value == IF IsDict(msg) THEN JGet(msg, K("value"), EmptyStr) ELSE msg
    IN IF IsStr(value) THEN value.s ELSE <<>>

\* the link [](file://<path>#<fragment>) of a message: the path up to the
\* first "#" and the fragment up to the ")" that closes the link
TLinkParts(msg) ==
    LET open == FirstAt(msg, "[](file://", 1)
        hash == IF open = 0 THEN 0 ELSE FirstAt(msg, "#", open + 1)
        close == IF hash = 0 THEN 0 ELSE FirstAt(msg, ")", hash + 1)
    IN IF close = 0 THEN [found |-> FALSE, path |-> <<>>, fragment |-> <<>>]
       ELSE [found |-> TRUE, path |-> SubSeq(msg, open + 1, hash - 1),
             fragment |-> SubSeq(msg, hash + 1, close - 1)]

\* the summary line of a rendered block
TSummary(out) == split_lines(out)[2]

\* C15: when the message of a record links a file with a fragment, the
\* summary line of the block begins with "Read **<base name of the
\* path>#<fragment>**" and holds no "Reading "
C15_SummaryNamesFile ==
    (t_pc = "done" /\ ~t_res.raises /\ t_res.v # <<>> /\ TLinkParts(TMessage(t_data)).found) =>
        LET link == TLinkParts(TMessage(t_data))
        IN /\ startswith(TSummary(t_res.v),
                         <<" ", " ", "<summary>", "Read ", "*", "*">>
                         \o AfterLastSlash(link.path) \o <<"#">> \o link.fragment
                         \o <<"*", "*">>)
           /\ ~contains(TSummary(t_res.v), <<"Reading ">>)

-----------------------------------------------------------------------------
(* format_message_text *)

\* the check mark the text cleaner looks for at the start of a line
CM == "CM"

\* s.replace(old, new), and re.sub for a pattern that is a literal
RECURSIVE replace_all(_, _, _)
replace_all(s, old, new) ==
    IF find(s, old) = 0 THEN s
    ELSE SubSeq(s, 1, find(s, old) - 1) \o new
         \o replace_all(SubSeq(s, find(s, old) + Len(old), Len(s)), old, new)

\* '{' in line and ('$mid' in line or 'kind' in line)
IsArtifact(line) ==
    contains(line, <<"{">>) /\ (contains(line, <<"$mid">>) \/ contains(line, <<"kind">>))

\* the items of a list that pass a test, in order
RECURSIVE without_artifacts(_)
without_artifacts(lines) ==
    IF lines = <<>> THEN <<>>
    ELSE IF IsArtifact(Head(lines)) THEN without_artifacts(Tail(lines))
    ELSE <<Head(lines)>> \o without_artifacts(Tail(lines))

\* lines 219-227
drop_raw_objects(text) ==
    IF IsArtifact(text) THEN JoinNL(without_artifacts(split_lines(text))) ELSE text

\* lines 231-249: a check-mark line that follows a check-mark line gets <br>
checkmark_breaks(lines) ==
    [i \in 1..Len(lines) |->
        IF startswith(strip(lines[i]), <<CM>>) /\ i > 1
              /\ startswith(strip(lines[i - 1]), <<CM>>)
          THEN <<"<br>">> \o lines[i]
        ELSE lines[i]]

\* lines 264-277: the loop over formatted_lines, prev_blank as it stands
RECURSIVE squeeze_blank_lines(_, _)
squeeze_blank_lines(lines, prev_blank) ==
    IF lines = <<>> THEN <<>>
    ELSE IF strip(Head(lines)) = <<>>
      THEN IF prev_blank THEN squeeze_blank_lines(Tail(lines), prev_blank)
           ELSE <<Head(lines)>> \o squeeze_blank_lines(Tail(lines), TRUE)
    ELSE IF IsArtifact(Head(lines)) THEN squeeze_blank_lines(Tail(lines), FALSE)
    ELSE <<Head(lines)>> \o squeeze_blank_lines(Tail(lines), FALSE)

\* lines 280-281: while result_lines and result_lines[-1].strip() == ''
RECURSIVE pop_blank_lines(_)
pop_blank_lines(lines) ==
    IF lines # <<>> /\ strip(lines[Len(lines)]) = <<>>
      THEN pop_blank_lines(SubSeq(lines, 1, Len(lines) - 1))
    ELSE lines

\* the class [a-z]
IsAZ(c) ==
    c \in {"a", "b", "c", "n", "p", "x", "y", "markdown", "python", "json", "text", "kind"}

\* the end of the run of [a-z] that starts at i (i - 1 when it is empty)
RECURSIVE AZRunEnd(_, _)
AZRunEnd(chars, i) ==
    IF i <= Len(chars) /\ IsAZ(chars[i]) THEN AZRunEnd(chars, i + 1) ELSE i - 1

\* p is in chars at index i
has_at(chars, i, p) == startswith(SubSeq(chars, i, Len(chars)), p)

\* The pattern of line 288 tried at the line start i: three backticks, [a-z]*,
\* \s* up to a newline that three backticks follow, then the longest \s*
\* after which the text or a line ends.  The index after the match, 0 when
\* there is none.
empty_block_end(text, i) ==
    LET lang == AZRunEnd(text, i + 3)
        gap == RunEnd(text, lang + 1, "s")
        closed == gap + 4
        tail == RunEnd(text, closed, "s")
        ends == {p \in closed..(tail + 1) : p = Len(text) + 1 \/ text[p] = "\n"}
    IN IF /\ has_at(text, i, Rep(BT, 3))
          /\ gap > lang
          /\ text[gap] = "\n"
          /\ has_at(text, gap + 1, Rep(BT, 3))
          /\ ends # {}
         THEN CHOOSE p \in ends : \A q \in ends : q <= p
       ELSE 0

\* re.sub of line 288 from the line start i on: the matches are cut out
RECURSIVE remove_empty_blocks(_, _)
remove_empty_blocks(text, i) ==
    LET e == empty_block_end(text, i)
        rest == SubSeq(text, i, Len(text))
        nl == find(rest, <<"\n">>)
    IN IF i > Len(text) THEN <<>>
       ELSE IF e # 0
         THEN IF e > Len(text) THEN <<>>
              ELSE <<"\n">> \o remove_empty_blocks(text, e + 1)
       ELSE IF nl = 0 THEN rest
       ELSE SubSeq(rest, 1, nl) \o remove_empty_blocks(text, i + nl)

\* lines 251-284, from the lines the check-mark loop left: text_result
result_text(lines) ==
    JoinNL(pop_blank_lines(squeeze_blank_lines(
        [k \in 1..Len(balance_code_fences(lines)) |->
            rstrip(balance_code_fences(lines)[k])], FALSE)))

\* lines 251-290, from the lines the check-mark loop left
clean_lines(lines) == remove_empty_blocks(result_text(lines), 1)

\* lines 217-249: the lines the check-mark loop leaves
checked_lines(text) ==
    checkmark_breaks(split_lines(
        drop_raw_objects(replace_all(text, <<BS, "n", BS, "n">>, <<"\n", "\n">>))))

format_message_text(text) ==
    IF text = <<>> THEN <<>> ELSE clean_lines(checked_lines(text))

-----------------------------------------------------------------------------
(* format_timestamp, format_error_message, format_references and
   add_spacing_after_details *)

\* A number of milliseconds is divided by 1000 and formatted as the local
\* date and time of that second, written here as the symbol DATE followed by
\* the second; anything that is no number raises TypeError inside the try.
format_timestamp(timestamp_ms) ==
    IF timestamp_ms.t = "num"
      THEN <<"DATE">> \o IntDigits(timestamp_ms.n \div 1000)
    ELSE <<"Unknown time">>

\* the loop over lines_in_message: blank lines dropped, the first line (when
\* it is not blank) carries the no-entry sign
error_box_lines(lines_in_message) ==
    LET quoted == [i \in 1..Len(lines_in_message) |->
                     IF i = 1 THEN <<">", " ", "NOENTRY", " ">> \o strip(lines_in_message[i])
                     ELSE <<">", " ">> \o strip(lines_in_message[i])]
        kept == {i \in 1..Len(quoted) : strip(lines_in_message[i]) # <<>>}
        nth(k) == CHOOSE i \in kept : Cardinality({j \in kept : j < i}) = k - 1
    IN [k \in 1..Cardinality(kept) |-> quoted[nth(k)]]

format_error_message(error_details) ==
    IF ~Truthy(error_details) \/ ~IsDict(error_details) THEN <<>>
    ELSE IF ~Truthy(JGet(error_details, K("message"), EmptyStr)) THEN <<>>
    ELSE JoinNL(Append(
             error_box_lines(split_lines(strip(JGet(error_details, K("message"), EmptyStr).s))),
             <<>>))

\* origin_label.split('github.copilot.chat.')[-1].split(' ')[0]
RECURSIVE after_last(_, _)
after_last(s, sep) ==
    IF find(s, sep) = 0 THEN s
    ELSE after_last(SubSeq(s, find(s, sep) + Len(sep), Len(s)), sep)

before_first(s, sep) == IF find(s, sep) = 0 THEN s ELSE SubSeq(s, 1, find(s, sep) - 1)

\* the entries of content_lines for one variable
reference_lines(var) ==
    LET name == JGet(var, K("name"), JStr(<<"Unknown">>)).s
        kind == JGet(var, K("kind"), EmptyStr)
        origin_label == JGet(var, K("originLabel"), EmptyStr)
    IN << IF startswith(name, <<"prompt:">>)
            THEN <<"LISTICON", " ">> \o SubSeq(name, 2, Len(name))
          ELSE <<"PAGEICON", " ">> \o name >>
       \o IF kind = JStr(K("promptFile")) /\ Truthy(origin_label)
               /\ contains(origin_label.s, <<"github.copilot.chat.">>)
            THEN << <<"GEARICON", " ", "github.copilot.chat.">>
                    \o before_first(after_last(origin_label.s, <<"github.copilot.chat.">>),
                                    <<" ">>) >>
          ELSE <<>>

RECURSIVE content_lines(_)
content_lines(variables) ==
    IF variables = <<>> THEN <<>>
    ELSE reference_lines(Head(variables)) \o content_lines(Tail(variables))

\* '<br>'.join(content_lines)
RECURSIVE JoinBr(_)
JoinBr(items) ==
    IF items = <<>> THEN <<>>
    ELSE IF Len(items) = 1 THEN items[1]
    ELSE items[1] \o <<"<br>">> \o JoinBr(Tail(items))

\* variables is a list of records whose name is a str
format_references(variables) ==
    IF ~Truthy(variables) THEN <<>>
    ELSE <<"<details>", "\n", " ", " ", "<summary>", "Used", " ">>
         \o NatDigits(Len(content_lines(variables.kv)))
         \o <<" ", "references", "</summary>", "\n", " ", " ", "<p>">>
         \o JoinBr(content_lines(variables.kv))
         \o <<"</p>", "\n", "</details>", "\n", "\n">>

\* the look-ahead of add_spacing_after_details from line k on: the first
\* line that is not blank, Len(lines) + 1 when there is none
RECURSIVE next_content_idx(_, _)
next_content_idx(lines, k) ==
    IF k <= Len(lines) /\ strip(lines[k]) = <<>> THEN next_content_idx(lines, k + 1) ELSE k

\* what the loop appends to result for line i
spaced_line(lines, i) ==
    IF /\ strip(lines[i]) = <<"</details>">>
       /\ next_content_idx(lines, i + 1) <= Len(lines)
       /\ ~startswith(strip(lines[next_content_idx(lines, i + 1)]), <<"<details>">>)
      THEN <<lines[i], <<"<br />">> >>
    ELSE <<lines[i]>>

RECURSIVE spaced_from(_, _)
spaced_from(lines, i) ==
    IF i > Len(lines) THEN <<>> ELSE spaced_line(lines, i) \o spaced_from(lines, i + 1)

add_spacing_after_details(markdown_text) ==
    JoinNL(spaced_from(split_lines(markdown_text), 1))

-----------------------------------------------------------------------------
(* parse_chat_log and parse_combined_chat_logs: the pieces of a request *)

\* ' '.join(items)
RECURSIVE JoinSp(_)
JoinSp(items) ==
    IF items = <<>> THEN <<>>
    ELSE IF Len(items) = 1 THEN items[1]
    ELSE items[1] \o <<" ">> \o JoinSp(Tail(items))

\* str.lower, for the texts of the model: their one capitalised word
lower(chars) ==
    [k \in 1..Len(chars) |-> IF chars[k] = "Canceled" THEN "canceled" ELSE chars[k]]

\* the names request-N and chat-C-request-N
request_name(i) == <<"request-">> \o NatDigits(i)
chat_request_name(c, n) == <<"chat-">> \o NatDigits(c) \o <<"-request-">> \o NatDigits(n)

\* <a name="..."></a> and [label](#...)
anchor_line(name) == <<"<a name=", QUOTE>> \o name \o <<QUOTE, "></a>">>
link_to(label, name) == <<"[">> \o label \o <<"](#">> \o name \o <<")">>

\* lines 46-65 and 366-384: the first line of the user message, for the
\* table of contents (message texts are str)
first_text_part(parts) ==
    LET with_text == {k \in 1..Len(parts) : IsDict(parts[k]) /\ HasKey(parts[k], K("text"))}
    IN IF with_text = {} THEN <<>>
       ELSE JGet(parts[Min(with_text)], K("text"), EmptyStr).s

preview_line(request) ==
    LET message == JGet(request, K("message"), JDict(<<>>))
        parts == JGet(message, K("parts"), JNull)
        preview == IF ~IsDict(message) THEN <<>>
                   ELSE IF HasKey(message, K("text"))
                     THEN JGet(message, K("text"), EmptyStr).s
                   ELSE IF HasKey(message, K("parts")) /\ IsList(parts)
                     THEN first_text_part(parts.kv)
                   ELSE <<>>
        first_line == Head(split_lines(preview))
    IN IF preview = <<>> THEN <<"[No message content]">>
       ELSE IF Len(first_line) > 80 THEN SubSeq(first_line, 1, 77) \o <<".", ".", ".">>
       ELSE first_line

\* lines 94-100 and 415-421: status_text, or the AttributeError of a
\* .get or .lower on what is no dict and no str
status_text(result) ==
    LET error_details == JGet(result, K("errorDetails"), JDict(<<>>))
        message == JGet(error_details, K("message"), JNull)
    IN IF ~IsDict(result) THEN Ret(<<>>)
       ELSE IF ~IsDict(error_details) THEN Raised
       ELSE IF ~Truthy(message) THEN Ret(<<>>)
       ELSE IF ~IsStr(message) THEN Raised
       ELSE IF contains(lower(message.s), <<"canceled">>)
         THEN Ret(<<" ", "*", "(", "CANCELED", ")", "*">>)
       ELSE Ret(<<" ", "*", "(", "ERROR", ")", "*">>)

\* lines 103-107 and 456-460
heading_lines(anchor, heading, status) ==
    <<anchor, heading>> \o (IF status # <<>> THEN <<status>> ELSE <<>>) \o << <<>> >>

\* lines 110-114 and 463-467
timestamp_lines(request) ==
    LET timestamp == JGet(request, K("timestamp"), JNull)
    IN IF Truthy(timestamp)
         THEN << <<"**Timestamp:**", " ">> \o format_timestamp(timestamp), <<>> >>
       ELSE <<>>

\* ''.join of the text of every part that is a dict with a text
RECURSIVE joined_text_parts(_)
joined_text_parts(parts) ==
    IF parts = <<>> THEN <<>>
    ELSE (IF IsDict(Head(parts)) /\ HasKey(Head(parts), K("text"))
            THEN JGet(Head(parts), K("text"), EmptyStr).s ELSE <<>>)
         \o joined_text_parts(Tail(parts))

\* lines 117-130 and 470-483: message_text
message_text_of(request) ==
    LET message == JGet(request, K("message"), JDict(<<>>))
        parts == JGet(message, K("parts"), JNull)
    IN IF ~IsDict(message) THEN <<>>
       ELSE IF HasKey(message, K("text")) THEN JGet(message, K("text"), EmptyStr).s
       ELSE IF HasKey(message, K("parts")) /\ IsList(parts) THEN joined_text_parts(parts.kv)
       ELSE <<>>

\* lines 132-135 and 485-488
message_lines(message_text) ==
    IF message_text = <<>> THEN <<>>
    ELSE << <<"**USER MESSAGE:**">>,
            <<">", " ">> \o replace_all(format_message_text(message_text),
                                        <<"\n">>, <<"\n", ">", " ">>),
            <<>> >>

\* lines 141-143 and 494-496: error_details as the response section sees it
error_details_of(result) ==
    IF IsDict(result) THEN JGet(result, K("errorDetails"), JDict(<<>>)) ELSE JNull

\* error_details and isinstance(error_details, dict) and error_details.get('message')
has_error_message(error_details) ==
    /\ Truthy(error_details) /\ IsDict(error_details)
    /\ Truthy(JGet(error_details, K("message"), JNull))

\* lines 150-158 and 503-511: the references, a list of records
reference_block(request) ==
    LET variable_data == JGet(request, K("variableData"), JDict(<<>>))
        variables == JGet(variable_data, K("variables"), JList(<<>>))
    IN IF ~IsDict(variable_data) THEN << <<>> >>
       ELSE IF Truthy(variables) /\ strip(format_references(variables)) # <<>>
         THEN <<format_references(variables)>>
       ELSE <<>>

\* lines 183-187, 193-197 and 515-519: response_parts from part k on, or the
\* exception of the extractor or of .strip() on what is no str
RECURSIVE response_parts(_, _)
response_parts(response, k) ==
    LET part_text == extract_text_from_response_part(response[k])
        rest == response_parts(response, k + 1)
    IN IF k > Len(response) THEN Ret(<<>>)
       ELSE IF part_text.raises THEN Raised
       ELSE IF ~Truthy(part_text.v) THEN rest
       ELSE IF ~IsStr(part_text.v) THEN Raised
       ELSE IF rest.raises THEN Raised
       ELSE IF strip(part_text.v.s) = <<>> THEN rest
       ELSE Ret(<<part_text.v.s>> \o rest.v)

\* lines 164-179: the stripped response texts of the tool call rounds
RECURSIVE tool_responses(_)
tool_responses(rounds) ==
    LET round_response == JGet(Head(rounds), K("response"), JNull)
    IN IF rounds = <<>> THEN <<>>
       ELSE (IF IsDict(Head(rounds)) /\ HasKey(Head(rounds), K("response"))
                  /\ IsStr(round_response) /\ strip(round_response.s) # <<>>
               THEN <<strip(round_response.s)>> ELSE <<>>)
            \o tool_responses(Tail(rounds))

rounds_response(result) ==
    LET metadata == JGet(result, K("metadata"), JDict(<<>>))
        tool_call_rounds == JGet(metadata, K("toolCallRounds"), JList(<<>>))
    IN IF IsDict(result) /\ IsDict(metadata) /\ IsList(tool_call_rounds)
         THEN JoinNL(tool_responses(tool_call_rounds.kv))
       ELSE <<>>

\* lines 200-206 and 522-528: tool_call_results and tool_call_rounds
tool_context(result) ==
    LET metadata == JGet(result, K("metadata"), JDict(<<>>))
    IN IF IsDict(result) /\ IsDict(metadata)
         THEN [results |-> JGet(metadata, K("toolCallResults"), JDict(<<>>)),
               rounds |-> JGet(metadata, K("toolCallRounds"), JList(<<>>))]
       ELSE [results |-> JDict(<<>>), rounds |-> JList(<<>>)]

\* lines 222-226 and 533-536: the cleaned response, when something is left
response_lines(consolidated_response) ==
    IF strip(consolidated_response) # <<>>
          /\ strip(format_message_text(consolidated_response)) # <<>>
      THEN <<format_message_text(consolidated_response), <<>> >>
    ELSE <<>>

\* lines 229-233 and 539-543
error_lines(error_details) ==
    IF has_error_message(error_details) /\ strip(format_error_message(error_details)) # <<>>
      THEN <<format_error_message(error_details), <<>> >>
    ELSE <<>>

\* lines 239-244: the response time (totalElapsed is a whole number of
\* hundredths of a second), or the TypeError of "in" on None or a number
timing_lines(result) ==
    LET timings == JGet(result, K("timings"), JDict(<<>>))
        elapsed_ms == JGet(timings, K("totalElapsed"), JNull).n
    IN IF ~IsDict(result) THEN Ret(<<>>)
       ELSE IF timings.t \in {"null", "num"} THEN Raised
       ELSE IF IsDict(timings) /\ HasKey(timings, K("totalElapsed"))
         THEN Ret(<< <<">", " ", "*", "Response time:", " ">>
                     \o NatDigits(elapsed_ms \div 1000) \o <<".">>
                     \o NatDigits((elapsed_ms % 1000) \div 100)
                     \o NatDigits(((elapsed_ms % 1000) \div 10) % 10)
                     \o <<" ", "seconds", "*">> >>)
       ELSE Ret(<<>>)

\* lines 252-257: model_display after the "if model_id:" block; JNull stands
\* for a local variable that was never assigned
model_display_of(model_id, model_display) ==
    IF ~Truthy(model_id) THEN model_display
    ELSE IF startswith(model_id.s, <<"copilot/">>)
      THEN JStr(SubSeq(model_id.s, 2, Len(model_id.s)))
    ELSE model_id

\* lines 247-264: the model line (modelId and details are str), or the
\* UnboundLocalError of reading model_display before any assignment
model_lines(request, model_display) ==
    LET model_id == JGet(request, K("modelId"), EmptyStr)
        details == JGet(request, K("details"), EmptyStr)
        now == model_display_of(model_id, model_display)
        model_info_parts ==
            (IF Truthy(model_id) THEN <<now.s>> ELSE <<>>)
            \o (IF Truthy(details) /\ details # now THEN <<details.s>> ELSE <<>>)
    IN IF Truthy(details) /\ now = JNull THEN Raised
       ELSE IF model_info_parts = <<>> THEN Ret(<<>>)
       ELSE Ret(<< <<">", " ", "<br>", "*", "Model:", " ">>
                   \o (IF Len(model_info_parts) = 1 THEN model_info_parts[1]
                       ELSE model_info_parts[1] \o <<" ", "BULLET", " ">>
                            \o model_info_parts[2])
                   \o <<"*">> >>)

\* lines 236-270: metadata_lines and the blank line after them
metadata_lines(timing, model) ==
    IF timing.raises \/ model.raises THEN Raised
    ELSE IF timing.v \o model.v = <<>> THEN Ret(<<>>)
    ELSE Ret(timing.v \o model.v \o << <<>> >>)

\* lines 273-275 and 546-548: the separator between requests
separator_lines(i, n) == IF i < n THEN << <<"-", "-", "-">>, <<>> >> ELSE <<>>

-----------------------------------------------------------------------------
(* parse_chat_log *)

\* lines 32-36 and 343-347: the header
header_lines(title, requester, responder) ==
    << <<"#", " ">> \o title,
       <<>>,
       <<"**Participant:**", " ">> \o PyStr(requester),
       <<"<br>", "**Assistant:**", " ">> \o PyStr(responder),
       <<>> >>

\* lines 41-43 and 351-353
toc_head == << anchor_line(<<"table-of-contents">>), <<"#", "#", " ", "Table of Contents">>, <<>> >>

\* line 67: the entries of the table of contents from request i on
RECURSIVE toc_entries(_, _)
toc_entries(requests, i) ==
    IF i > Len(requests) THEN <<>>
    ELSE << <<"-", " ">> \o link_to(<<"Request", " ">> \o NatDigits(i), request_name(i))
            \o <<":", " ">> \o preview_line(requests[i]) >>
         \o toc_entries(requests, i + 1)

\* nav_links with a next link on the last request too
nav_links_past_end(i, n) ==
    << link_to(<<"^^^">>, <<"table-of-contents">>),
       IF i > 1 THEN link_to(<<"<<<">>, request_name(i - 1)) ELSE <<"<<<">>,
       IF i <= n THEN link_to(<<">>>">>, request_name(i + 1)) ELSE <<">>>">> >>

\* lines 77-88
nav_links(i, n) ==
    << link_to(<<"^^^">>, <<"table-of-contents">>),
       IF i > 1 THEN link_to(<<"<<<">>, request_name(i - 1)) ELSE <<"<<<">>,
       IF i < n THEN link_to(<<">>>">>, request_name(i + 1)) ELSE <<">>>">> >>

\* lines 103-135: what the loop body appends up to the user message
request_lines(request, i, n, status) ==
    heading_lines(anchor_line(request_name(i)),
                  <<"#", "#", " ", "Request", " ">> \o NatDigits(i) \o <<" ">>
                      \o JoinSp(nav_links(i, n)),
                  status)
    \o timestamp_lines(request)
    \o message_lines(message_text_of(request))

\* lines 146-158 and 499-511: the head of the response section
response_head(request) ==
    IF Truthy(JGet(request, K("response"), JList(<<>>)))
          \/ has_error_message(error_details_of(JGet(request, K("result"), JDict(<<>>))))
      THEN << <<"**ASSISTANT RESPONSE:**">> >> \o reference_block(request)
    ELSE <<>>

\* lines 163-190: consolidated_response before the markers are processed
\* (response is a list)
consolidated_before(request, parts) ==
    IF ~Truthy(JGet(request, K("response"), JList(<<>>))) THEN <<>>
    ELSE IF strip(rounds_response(JGet(request, K("result"), JDict(<<>>)))) # <<>>
      THEN rounds_response(JGet(request, K("result"), JDict(<<>>)))
    ELSE JoinNL(parts)

\* lines 215-219: consolidated_response after process_special_markers
\* returned incremental_response
consolidated_after(consolidated_response, parts, incremental_response) ==
    IF \/ contains(Concat(parts), <<TI>>)
       \/ contains(Concat(parts), <<TEG>>)
       \/ strip(consolidated_response) = <<>>
      THEN incremental_response
    ELSE consolidated_response

\* the chats given to parse_chat_log have a list of requests
ChatHeader ==
    /\ p_pc = "in" /\ p_fn = "parse_chat_log"
    /\ p_requests' = JGet(p_data, K("requests"), JList(<<>>)).kv
    /\ p_md_lines' =
         header_lines(<<"GitHub Copilot Chat Log">>,
                      JGet(p_data, K("requesterUsername"), JStr(<<"User">>)),
                      JGet(p_data, K("responderUsername"), JStr(<<"GitHub Copilot">>)))
         \o (IF Len(p_requests') > 1
               THEN toc_head \o toc_entries(p_requests', 1) \o << <<>> >>
             ELSE <<>>)
         \o << <<"-", "-", "-">>, <<>> >>
    /\ p_i' = 1
    /\ p_pc' = "request"
    /\ UNCHANGED <<p_fn, p_data, p_boundaries, p_model_display, p_response_parts,
                   p_consolidated, p_out, NotP>>

\* what a raise inside the loop body leaves: the exception reaches the caller
ParseRaises ==
    /\ p_pc' = "raised"
    /\ UNCHANGED <<p_fn, p_data, p_requests, p_boundaries, p_i, p_md_lines,
                   p_model_display, p_response_parts, p_consolidated, p_out, mvars>>

\* process_special_markers is called with the joined parts / is not called
CallMarkers(result) ==
    IF p_response_parts' # <<>>
      THEN /\ m_pc' = "in"
           /\ m_text' = smart_join_parts(p_response_parts')
           /\ m_ctx' = tool_context(result)
           /\ m_before' = <<>>
    ELSE UNCHANGED mvars

\* lines 75-212: the loop body up to the call of process_special_markers
ChatRequest ==
    /\ p_pc = "request" /\ p_fn = "parse_chat_log" /\ p_i <= Len(p_requests)
    /\ LET request == p_requests[p_i]
           result == JGet(request, K("result"), JDict(<<>>))
           response == JGet(request, K("response"), JList(<<>>))
           status == status_text(result)
           parts == IF Truthy(response) THEN response_parts(response.kv, 1) ELSE Ret(<<>>)
       IN IF status.raises \/ parts.raises THEN ParseRaises
          ELSE /\ p_md_lines' = p_md_lines
                                  \o request_lines(request, p_i, Len(p_requests), status.v)
                                  \o response_head(request)
               /\ p_response_parts' = parts.v
               /\ p_consolidated' = consolidated_before(request, parts.v)
               /\ CallMarkers(result)
               /\ p_pc' = "response"
               /\ UNCHANGED <<p_fn, p_data, p_requests, p_boundaries, p_i,
                              p_model_display, p_out>>
    /\ UNCHANGED <<bvars, jvars, xvars, evars, tvars, cvars>>

\* lines 215-275: the rest of the loop body, process_special_markers having
\* returned m_text when it was called
ChatResponse ==
    /\ p_pc = "response" /\ p_fn = "parse_chat_log" /\ m_pc \in {"idle", "done"}
    /\ LET request == p_requests[p_i]
           result == JGet(request, K("result"), JDict(<<>>))
           consolidated_response ==
               IF m_pc = "done"
                 THEN consolidated_after(p_consolidated, p_response_parts, m_text)
               ELSE p_consolidated
           metadata == metadata_lines(timing_lines(result),
                                      model_lines(request, p_model_display))
       IN IF metadata.raises THEN ParseRaises
          ELSE /\ p_md_lines' = p_md_lines
                                  \o response_lines(consolidated_response)
                                  \o error_lines(error_details_of(result))
                                  \o metadata.v
                                  \o separator_lines(p_i, Len(p_requests))
               /\ p_model_display' =
                    model_display_of(JGet(request, K("modelId"), EmptyStr), p_model_display)
               /\ p_i' = p_i + 1
               /\ p_pc' = "request"
               /\ m_pc' = "idle" /\ m_text' = <<>> /\ m_ctx' = <<>> /\ m_before' = <<>>
               /\ UNCHANGED <<p_fn, p_data, p_requests, p_boundaries,
                              p_response_parts, p_consolidated, p_out>>
    /\ UNCHANGED <<bvars, jvars, xvars, evars, tvars, cvars>>

\* lines 277-278 and 550-551
ParseReturn ==
    /\ p_pc = "request" /\ p_i > Len(p_requests)
    /\ p_out' = add_spacing_after_details(JoinNL(p_md_lines))
    /\ p_pc' = "done"
    /\ UNCHANGED <<p_fn, p_data, p_requests, p_boundaries, p_i, p_md_lines,
                   p_model_display, p_response_parts, p_consolidated, NotP>>

-----------------------------------------------------------------------------
(* parse_combined_chat_logs *)

\* lines 304-309 and 316: first_timestamp of a loaded file (timestamps are
\* numbers)
first_timestamp(file) ==
    LET requests == JGet(file.chat_data, K("requests"), JList(<<>>)).kv
    IN IF requests = <<>> THEN 0
       ELSE JGet(requests[1], K("timestamp"), JNum(0)).n

\* line 322: list.sort on first_timestamp, which is stable
RECURSIVE sorted_files(_)
sorted_files(files) ==
    IF files = <<>> THEN <<>>
    ELSE LET before == sorted_files(SubSeq(files, 1, Len(files) - 1))
             last == files[Len(files)]
             at == Cardinality({k \in 1..Len(before) :
                                  first_timestamp(before[k]) <= first_timestamp(last)})
         IN SubSeq(before, 1, at) \o <<last>> \o SubSeq(before, at + 1, Len(before))

\* lines 328-337: file_boundaries for the files from k on, start_index being
\* the number of requests before them
RECURSIVE file_boundaries(_, _, _)
file_boundaries(chat_files, k, start_index) ==
    IF k > Len(chat_files) THEN <<>>
    ELSE LET requests == JGet(chat_files[k].chat_data, K("requests"), JList(<<>>)).kv
         IN << [start_index |-> start_index,
                end_index |-> start_index + Len(requests),
                file_name |-> chat_files[k].file_name,
                requester |-> JGet(chat_files[k].chat_data, K("requesterUsername"),
                                   JStr(<<"User">>)),
                responder |-> JGet(chat_files[k].chat_data, K("responderUsername"),
                                   JStr(<<"GitHub Copilot">>))] >>
            \o file_boundaries(chat_files, k + 1, start_index + Len(requests))

\* lines 328-337: all_requests
RECURSIVE all_requests(_)
all_requests(chat_files) ==
    IF chat_files = <<>> THEN <<>>
    ELSE JGet(Head(chat_files).chat_data, K("requests"), JList(<<>>)).kv
         \o all_requests(Tail(chat_files))

\* the first chat whose boundary holds the 0-based index i, 0 when none does
chat_of(boundaries, i) ==
    LET holding == {c \in 1..Len(boundaries) :
                      boundaries[c].start_index <= i /\ i < boundaries[c].end_index}
    IN IF holding = {} THEN 0 ELSE Min(holding)

\* the name chat-C-request-N of the request with the 0-based index i
name_at(boundaries, i) ==
    chat_request_name(chat_of(boundaries, i),
                      i - boundaries[chat_of(boundaries, i)].start_index + 1)

\* lines 361-386: the entries of a chat in the table of contents
RECURSIVE combined_toc_entries(_, _, _, _)
combined_toc_entries(requests, boundary, chat_num, i) ==
    IF i >= boundary.end_index THEN <<>>
    ELSE << <<"-", " ">>
            \o link_to(<<"Request", " ">> \o NatDigits(i - boundary.start_index + 1),
                       chat_request_name(chat_num, i - boundary.start_index + 1))
            \o <<":", " ">> \o preview_line(requests[i + 1]) >>
         \o combined_toc_entries(requests, boundary, chat_num, i + 1)

\* lines 356-387: the sections of the table of contents from chat chat_num on
RECURSIVE combined_toc(_, _, _)
combined_toc(requests, boundaries, chat_num) ==
    IF chat_num > Len(boundaries) THEN <<>>
    ELSE << <<"#", "#", "#", " ", "Chat", " ">> \o NatDigits(chat_num) \o <<":", " ">>
            \o replace_all(replace_all(boundaries[chat_num].file_name,
                                       <<"[">>, <<BS, "[">>), <<"]">>, <<BS, "]">>),
            <<>> >>
         \o combined_toc_entries(requests, boundaries[chat_num], chat_num,
                                 boundaries[chat_num].start_index)
         \o << <<>> >>
         \o combined_toc(requests, boundaries, chat_num + 1)

\* lines 400-409: the chat header before the first request of a chat
chat_header(boundaries, i) ==
    IF chat_of(boundaries, i) # 0 /\ i = boundaries[chat_of(boundaries, i)].start_index
      THEN << <<"#", "#", " ", "Chat", " ">> \o NatDigits(chat_of(boundaries, i))
              \o <<":", " ">> \o boundaries[chat_of(boundaries, i)].file_name,
              <<>> >>
    ELSE <<>>

\* lines 424-453: nav_links of the request with the 0-based index i of n
combined_nav_links(boundaries, i, n) ==
    << link_to(<<"^">>, <<"table-of-contents">>) >>
    \o (IF i + 1 > 1
          THEN IF chat_of(boundaries, i - 1) # 0
                 THEN << link_to(<<"<">>, name_at(boundaries, i - 1)) >> ELSE <<>>
        ELSE << <<"<">> >>)
    \o (IF i + 1 < n
          THEN IF chat_of(boundaries, i + 1) # 0
                 THEN << link_to(<<">">>, name_at(boundaries, i + 1)) >> ELSE <<>>
        ELSE << <<">">> >>)

\* lines 397-488: what the loop body appends up to the user message
combined_request_lines(request, boundaries, i, n, status) ==
    chat_header(boundaries, i)
    \o heading_lines(anchor_line(name_at(boundaries, i)),
                     <<"#", "#", "#", " ", "Chat", " ">>
                         \o NatDigits(chat_of(boundaries, i)) \o <<"-", "Request", " ">>
                         \o NatDigits(i - boundaries[chat_of(boundaries, i)].start_index + 1)
                         \o <<" ">> \o JoinSp(combined_nav_links(boundaries, i, n)),
                     status)
    \o timestamp_lines(request)
    \o message_lines(message_text_of(request))

\* lines 298-390: the files are loaded, there is at least one, and each
\* holds a list of requests
CombinedHeader ==
    /\ p_pc = "in" /\ p_fn = "parse_combined_chat_logs"
    /\ p_boundaries' = file_boundaries(sorted_files(p_data), 1, 0)
    /\ p_requests' = all_requests(sorted_files(p_data))
    /\ p_md_lines' =
         header_lines(<<"GitHub Copilot Chat Log (Combined)">>,
                      p_boundaries'[1].requester, p_boundaries'[1].responder)
         \o (IF Len(p_requests') > 1
               THEN toc_head \o combined_toc(p_requests', p_boundaries', 1)
             ELSE <<>>)
         \o << <<"-", "-", "-">>, <<>> >>
    /\ p_i' = 1
    /\ p_pc' = "request"
    /\ UNCHANGED <<p_fn, p_data, p_model_display, p_response_parts, p_consolidated,
                   p_out, NotP>>

\* lines 393-532: the loop body up to the call of process_special_markers
CombinedRequest ==
    /\ p_pc = "request" /\ p_fn = "parse_combined_chat_logs" /\ p_i <= Len(p_requests)
    /\ LET request == p_requests[p_i]
           result == JGet(request, K("result"), JDict(<<>>))
           response == JGet(request, K("response"), JList(<<>>))
           status == status_text(result)
           parts == IF Truthy(response) THEN response_parts(response.kv, 1) ELSE Ret(<<>>)
       IN IF status.raises \/ parts.raises THEN ParseRaises
          ELSE /\ p_md_lines' = p_md_lines
                                  \o combined_request_lines(request, p_boundaries, p_i - 1,
                                                            Len(p_requests), status.v)
                                  \o response_head(request)
               /\ p_response_parts' = parts.v
               /\ CallMarkers(result)
               /\ p_pc' = "response"
               /\ UNCHANGED <<p_fn, p_data, p_requests, p_boundaries, p_i,
                              p_model_display, p_consolidated, p_out>>
    /\ UNCHANGED <<bvars, jvars, xvars, evars, tvars, cvars>>

\* lines 533-548: the rest of the loop body, process_special_markers having
\* returned m_text when it was called
CombinedResponse ==
    /\ p_pc = "response" /\ p_fn = "parse_combined_chat_logs" /\ m_pc \in {"idle", "done"}
    /\ p_md_lines' = p_md_lines
                       \o (IF m_pc = "done" /\ strip(format_message_text(m_text)) # <<>>
                             THEN <<format_message_text(m_text), <<>> >> ELSE <<>>)
                       \o error_lines(error_details_of(
                              JGet(p_requests[p_i], K("result"), JDict(<<>>))))
                       \o separator_lines(p_i, Len(p_requests))
    /\ p_i' = p_i + 1
    /\ p_pc' = "request"
    /\ m_pc' = "idle" /\ m_text' = <<>> /\ m_ctx' = <<>> /\ m_before' = <<>>
    /\ UNCHANGED <<p_fn, p_data, p_requests, p_boundaries, p_model_display,
                   p_response_parts, p_consolidated, p_out>>
    /\ UNCHANGED <<bvars, jvars, xvars, evars, tvars, cvars>>

-----------------------------------------------------------------------------
(* The chats given to parse_chat_log *)

PText(chars) == JDict(Pair("text", JStr(chars)))
PValue(chars) == JDict(Pair("value", JStr(chars)))
PErrored(chars) == JDict(Pair("errorDetails", JDict(Pair("message", JStr(chars)))))

\* a response part that is the tool invocation MReadRecord
PToolPart ==
    JDict(Pair("kind", JStr(K("toolInvocationSerialized"))) \o MReadRecord.kv)

\* result.metadata with the tool call results and rounds of a context
PMetadata(ctx) ==
    JDict(Pair("metadata", JDict(Pair("toolCallResults", ctx.results)
                                 \o Pair("toolCallRounds", ctx.rounds))))

\* Requests: one with nothing at all; one with every section; ones whose
\* message has parts, whose response is joined from several parts, taken
\* from the tool call rounds, or holds a tool invocation; canceled and failed
\* ones; ones with a null where a record is expected; one that has details
\* and no modelId.
PRequests ==
    { JDict(<<>>),
      JDict(Pair("message", PText(<<"x">>))
            \o Pair("response", JList(<<PValue(<<"a", ".">>)>>))
            \o Pair("result", JDict(Pair("timings", JDict(Pair("totalElapsed", JNum(1500))))))
            \o Pair("modelId", JStr(<<"copilot/", "a">>))
            \o Pair("details", JStr(<<"a">>))
            \o Pair("timestamp", JNum(1000))
            \o Pair("variableData",
                    JDict(Pair("variables", JList(<<JDict(Pair("name", JStr(<<"prompt:", "a">>)))>>))))),
      JDict(Pair("message", JDict(Pair("parts", JList(<<PText(<<"x">>), PText(<<"y">>)>>))))
            \o Pair("response", JList(<<PValue(<<"a", ".">>), PValue(<<"#", "b">>)>>))
            \o Pair("modelId", JStr(<<"b">>))
            \o Pair("details", JStr(<<"a">>))),
      JDict(Pair("message", PText(<<"x", "\n", "y">>))
            \o Pair("result", PErrored(<<"Canceled">>))),
      JDict(Pair("response", JList(<<PValue(<<"a">>)>>))
            \o Pair("result", PErrored(<<"x">>))),
      JDict(Pair("response", JList(<<PValue(<<"a">>)>>))
            \o Pair("result", JDict(Pair("metadata", JDict(Pair("toolCallRounds",
                   JList(<<JDict(Pair("response", JStr(<<" ", "b", " ">>)))>>)))))) ),
      JDict(Pair("response", JList(<<PToolPart, PValue(<<"a">>)>>))
            \o Pair("result", PMetadata(MContext(<<"x", "\n", "y">>)))),
      JDict(Pair("message", JNull) \o Pair("response", JNull) \o Pair("result", JNull)
            \o Pair("variableData", JNull)),
      JDict(Pair("result", JDict(Pair("errorDetails", JNull)))),
      JDict(Pair("result", JDict(Pair("timings", JNull)))),
      JDict(Pair("message", PText(<<"x">>)) \o Pair("modelId", JStr(<<"copilot/", "a">>))),
      JDict(Pair("message", PText(<<"y">>)) \o Pair("details", JStr(<<"a">>))) }

PChats ==
    { JDict(Pair("requests", JList(requests))) :
        requests \in UNION {[1..n -> PRequests] : n \in 0..MaxRequests} }

\* Requests of the files given to parse_combined_chat_logs
PFirst ==
    JDict(Pair("message", PText(<<"x">>)) \o Pair("timestamp", JNum(2000))
          \o Pair("response", JList(<<PValue(<<"a">>)>>)))
PSecond ==
    JDict(Pair("message", PText(<<"x", "\n", "y">>)) \o Pair("timestamp", JNum(1000))
          \o Pair("result", PErrored(<<"Canceled">>)))

PFile(file_name, requests) ==
    [file_name |-> file_name, chat_data |-> JDict(Pair("requests", JList(requests)))]

\* Files as loaded: one without requests, ones with one and two requests
\* whose first timestamps differ, one whose name holds brackets, one whose
\* request has a null errorDetails
PFiles ==
    { PFile(<<"a">>, <<>>),
      PFile(<<"b">>, <<PFirst>>),
      PFile(<<"c">>, <<PSecond, JDict(<<>>)>>),
      PFile(<<"x", "[", "1", "]">>, <<JDict(<<>>), PFirst>>),
      PFile(<<"y">>, <<JDict(Pair("result", JDict(Pair("errorDetails", JNull))))>>) }

PFileLists == UNION {[1..n -> PFiles] : n \in 1..MaxFiles}

PInit ==
    /\ p_pc = "in"
    /\ \/ p_fn = "parse_chat_log" /\ p_data \in PChats
       \/ p_fn = "parse_combined_chat_logs" /\ p_data \in PFileLists
    /\ p_requests = <<>> /\ p_boundaries = <<>> /\ p_i = 0 /\ p_md_lines = <<>>
    /\ p_model_display = JNull /\ p_response_parts = <<>> /\ p_consolidated = <<>>
    /\ p_out = <<>>
    /\ BIdle /\ JIdle /\ XIdle /\ EIdle /\ MIdle /\ TIdle /\ CIdle

PNext ==
    \/ ChatHeader \/ ChatRequest \/ ChatResponse
    \/ CombinedHeader \/ CombinedRequest \/ CombinedResponse
    \/ PassEdits \/ PassTools \/ PassTasks \/ FixSpacing
    \/ ParseReturn

SpecParse == PInit /\ [][PNext]_vars

-----------------------------------------------------------------------------
(* Claims about the documents of parse_chat_log and parse_combined_chat_logs *)

\* the characters of text from k up to the first c (or the end)
UpTo(text, k, c) ==
    LET at == {q \in k..Len(text) : text[q] = c}
    IN IF at = {} THEN SubSeq(text, k, Len(text)) ELSE SubSeq(text, k, Min(at) - 1)

\* where the links [label](#target) and the tags <a name="..."> of a text
\* are, and what they name
LinksOf(text) == {k \in 1..Len(text) : text[k] = "](#"}
TargetOf(text, k) == UpTo(text, k + 1, ")")
TagsOf(text) == {k \in 1..Len(text) : text[k] = "<a name="}
NameOf(text, k) == UpTo(text, k + 2, QUOTE)

\* the name is request-N or chat-C-request-N
IsRequestName(name) == name # <<>> /\ name[1] \in {"request-", "chat-"}

\* the link is a previous link of a request heading
IsPreviousLink(text, k) == k > 1 /\ text[k - 1] \in {"<<<", "<"}

\* C16 as stated: in every document produced by parse_chat_log and
\* parse_combined_chat_logs, every request anchor referenced in a link (a
\* table-of-contents entry, a previous or next navigation link) has a
\* matching anchor tag emitted earlier in the document.
C16_TagEmittedEarlier ==
    (p_pc = "done") =>
        \A k \in LinksOf(p_out) :
            IsRequestName(TargetOf(p_out, k)) =>
                \E q \in TagsOf(p_out) : q < k /\ NameOf(p_out, q) = TargetOf(p_out, k)

\* C16 as amended: every request anchor referenced in a link has a matching
\* anchor tag in the document: earlier than the link for a previous link,
\* later than it for a table-of-contents entry and for a next link.
C16_TagInDocument ==
    (p_pc = "done") =>
        \A k \in LinksOf(p_out) :
            IsRequestName(TargetOf(p_out, k)) =>
                \E q \in TagsOf(p_out) :
                    /\ NameOf(p_out, q) = TargetOf(p_out, k)
                    /\ (q < k) = IsPreviousLink(p_out, k)

\* a combined document is returned in which a previous link leads from the
\* first request of the second chat back to the second request of the first
\* chat, whose tag is above the link, as is the tag of the link's own request
C16_Witness ==
    /\ p_pc = "done" /\ p_fn = "parse_combined_chat_logs"
    /\ \E k \in LinksOf(p_out) :
          /\ IsPreviousLink(p_out, k)
          /\ TargetOf(p_out, k) = chat_request_name(1, 2)
          /\ \E q \in TagsOf(p_out) : q < k /\ NameOf(p_out, q) = chat_request_name(1, 2)
          /\ \E q \in TagsOf(p_out) : q < k /\ NameOf(p_out, q) = chat_request_name(2, 1)

\* the requests of a chat whose message text is not empty / that have a
\* response or an error message
PWithMessage(requests) == {i \in 1..Len(requests) : message_text_of(requests[i]) # <<>>}
PWithResponse(requests) == {i \in 1..Len(requests) : response_head(requests[i]) # <<>>}

\* C17: parse_chat_log degrades gracefully on a request with missing, absent
\* or malformed optional data (no message, no response, no result, a null
\* errorDetails or timings, details without modelId, no variables): it
\* raises no exception, and returns the document with the user message and
\* the response section of exactly the requests that have one.
C17_DegradesGracefully ==
    (p_fn = "parse_chat_log") =>
        /\ p_pc # "raised"
        /\ (p_pc = "done") =>
              /\ CountOf(p_out, "**USER MESSAGE:**") = Cardinality(PWithMessage(p_requests))
              /\ CountOf(p_out, "**ASSISTANT RESPONSE:**")
                   = Cardinality(PWithResponse(p_requests))


-----------------------------------------------------------------------------
(* Claims about the spacing that process_special_markers leaves *)

\* the positions of the <details> tags of a text
DetailsAt(text) == {k \in 1..Len(text) : text[k] = "<details>"}

\* C21: in the text process_special_markers returns, every <details> is at
\* the very start of the text or right after a newline, whatever stood in
\* front of it in the input, another <details> included
C21_DetailsBeginLine ==
    (m_pc = "done") =>
        \A k \in DetailsAt(m_text) : k = 1 \/ m_text[k - 1] = "\n"


-----------------------------------------------------------------------------
(* Claims about the summary line and the fences of a rendered tool invocation *)

\* the text a message supplies: the message when it is a str, its value when
\* it is a record with a str value, <<>> otherwise
TTextOf(message) ==
    IF IsStr(message) THEN message.s
    ELSE IF IsDict(message) /\ IsStr(JGet(message, K("value"), JNull))
      THEN JGet(message, K("value"), JNull).s
    ELSE <<>>

\* the text the strict fallback picks for a record
TFallbackText(tool_data) ==
    LET invocation == TTextOf(JGet(tool_data, K("invocationMessage"), JNull))
        past == TTextOf(JGet(tool_data, K("pastTenseMessage"), JNull))
    IN IF invocation # <<>> THEN invocation
       ELSE IF past # <<>> THEN past
       ELSE <<"Ran tool">>

\* a text that holds no file link and no "Reading ", which the summary shows
\* as it is
TPlain(text) == \A k \in 1..Len(text) : text[k] \notin {"[](file://", "Reading "}

\* C22: the summary line of a rendered tool invocation shows the text of the
\* invocation message when the record has a non-empty one, otherwise the
\* text of the past-tense message when the record has one, otherwise "Ran
\* tool" (stated for the texts the summary shows unchanged)
C22_StrictFallback ==
    (/\ t_pc = "done" /\ ~t_res.raises /\ t_res.v # <<>>
     /\ TPlain(TFallbackText(t_data))) =>
        TSummary(t_res.v)
          = <<" ", " ", "<summary>">> \o TFallbackText(t_data) \o <<"</summary>">>

\* the longest run of backticks in a line
TLongestRun(line) ==
    LET runs == {n \in 1..Len(line) :
                   \E k \in 1..(Len(line) - n + 1) : \A j \in k..(k + n - 1) : line[j] = BT}
    IN IF runs = {} THEN 0 ELSE CHOOSE n \in runs : \A m \in runs : m <= n

\* a rendered block that wraps the content of a tool result: the summary is
\* followed by a blank line and a fence line
TWraps(out) ==
    LET lines == split_lines(out)
    IN /\ Len(lines) >= 10
       /\ lines[3] = <<>>
       /\ LeadingTicks(lines[4]) > 0

\* the fence lines of such a block and the lines between them
TOpening(out) == split_lines(out)[4]
TClosing(out) == split_lines(out)[Len(split_lines(out)) - 4]
TBody(out) == SubSeq(split_lines(out), 5, Len(split_lines(out)) - 5)

\* C23: the fence that format_tool_invocation_details puts around the
\* content of a correlated tool result has at least 3 backticks and more
\* backticks than the longest run of backticks in the wrapped lines, and
\* the closing fence line is as long as the opening run
C23_FenceOutgrowsBody ==
    (t_pc = "done" /\ ~t_res.raises /\ TWraps(t_res.v)) =>
        LET n == LeadingTicks(TOpening(t_res.v))
        IN /\ n >= 3
           /\ TClosing(t_res.v) = Rep(BT, n)
           /\ \A k \in 1..Len(TBody(t_res.v)) : TLongestRun(TBody(t_res.v)[k]) < n

\* the file under a header is wrapped in a fence of 4 backticks tagged
\* python, a fence of 3 backticks inside it
C23_Witness ==
    /\ t_pc = "done" /\ ~t_res.raises /\ TWraps(t_res.v)
    /\ TOpening(t_res.v) = <<BT, BT, BT, BT, "python">>
    /\ \E k \in 1..Len(TBody(t_res.v)) : TBody(t_res.v)[k] = <<BT, BT, BT>>

-----------------------------------------------------------------------------
(* format_message_text as a process: the text, text_result at line 284, and
   the text returned after the substitution of line 288 *)

\* the longest text the cleaner is run on, in lines
MaxCleanLines == 5

\* the lines a message text is made of
CLines ==
    { <<>>, <<"a">>, <<BT, BT, BT, "python">>, <<BT, BT, BT>>,
      <<"x", " ", "{", " ", "kind">>, <<"{", "$mid">> }

CTextsOf(n) == { JoinNL(ls) : ls \in [1..n -> CLines] }

CTexts == UNION { CTextsOf(n) : n \in 1..MaxCleanLines }

CInit ==
    /\ c_pc = "in"
    /\ c_text \in CTexts
    /\ c_result = <<>>
    /\ c_out = <<>>
    /\ BIdle /\ JIdle /\ XIdle /\ EIdle /\ MIdle /\ TIdle /\ PIdle

\* lines 212-213: if not text: return ""
CleanNothing ==
    /\ c_pc = "in"
    /\ c_text = <<>>
    /\ c_pc' = "done"
    /\ c_out' = <<>>
    /\ UNCHANGED <<c_text, c_result>>
    /\ UNCHANGED NotC

\* lines 217-284: up to text_result = '\n'.join(result_lines)
CleanLines ==
    /\ c_pc = "in"
    /\ c_text # <<>>
    /\ c_result' = result_text(checked_lines(c_text))
    /\ c_pc' = "joined"
    /\ UNCHANGED <<c_text, c_out>>
    /\ UNCHANGED NotC

\* lines 288-290: the empty code blocks are cut out and the text returned
CleanBlocks ==
    /\ c_pc = "joined"
    /\ c_out' = remove_empty_blocks(c_result, 1)
    /\ c_pc' = "done"
    /\ UNCHANGED <<c_text, c_result>>
    /\ UNCHANGED NotC

CNext == CleanNothing \/ CleanLines \/ CleanBlocks

SpecClean == CInit /\ [][CNext]_vars

\* a line with nothing but white space
CBlank(line) == strip(line) = <<>>

\* C25: the text format_message_text returns has no two adjacent blank lines
\* and does not end with a blank line, the removal of the empty code blocks
\* included
C25_NoBlankRuns ==
    (c_pc = "done" /\ c_out # <<>>) =>
        LET lines == split_lines(c_out)
        IN /\ \A k \in 1..(Len(lines) - 1) : ~(CBlank(lines[k]) /\ CBlank(lines[k + 1]))
           /\ ~CBlank(lines[Len(lines)])

\* the lines of a list that are not blank, in order
RECURSIVE CNonBlank(_)
CNonBlank(lines) ==
    IF lines = <<>> THEN <<>>
    ELSE IF CBlank(Head(lines)) THEN CNonBlank(Tail(lines))
    ELSE <<Head(lines)>> \o CNonBlank(Tail(lines))

\* the lines of a list that do not hold both '{' and '$mid', in order
RECURSIVE CWithoutMid(_)
CWithoutMid(lines) ==
    IF lines = <<>> THEN <<>>
    ELSE IF contains(Head(lines), <<"{">>) /\ contains(Head(lines), <<"$mid">>)
      THEN CWithoutMid(Tail(lines))
    ELSE <<Head(lines)>> \o CWithoutMid(Tail(lines))

\* C26: of a text without code fences, format_message_text drops a line only
\* if the line holds both '{' and '$mid'; every other line that is not blank
\* (one with '{' and the word 'kind' too) is kept, in its order
C26_OnlyMidLinesDropped ==
    (c_pc = "done" /\ ~contains(c_text, <<BT>>)) =>
        CNonBlank(split_lines(c_out)) = CNonBlank(CWithoutMid(split_lines(c_text)))

\* the line starts of text_result, from i on, at which the pattern of line 288
\* matches as re.sub walks the text
RECURSIVE CRemovedAt(_, _)
CRemovedAt(text, i) ==
    LET e == empty_block_end(text, i)
        nl == find(SubSeq(text, i, Len(text)), <<"\n">>)
    IN IF i > Len(text) THEN {}
       ELSE IF e # 0 THEN {i} \cup CRemovedAt(text, e + 1)
       ELSE IF nl = 0 THEN {}
       ELSE CRemovedAt(text, i + nl)

\* the number of the line that starts at index i of a text
CLineOf(text, i) == CountOf(SubSeq(text, 1, i - 1), "\n") + 1

\* a line that is a code fence, and one that is a fence and nothing else
CIsFence(line) == LeadingTicks(line) >= 3
CFenceOnly(line) == CIsFence(line) /\ LeadingTicks(line) = Len(line)

\* The number of code blocks open after the first k lines: a fence with a
\* language opens a block, a fence-only line closes the block that is open
\* and opens one when none is.
RECURSIVE COpenAfter(_, _)
COpenAfter(lines, k) ==
    IF k = 0 THEN 0
    ELSE IF ~CIsFence(lines[k]) THEN COpenAfter(lines, k - 1)
    ELSE IF ~CFenceOnly(lines[k]) \/ COpenAfter(lines, k - 1) = 0
      THEN COpenAfter(lines, k - 1) + 1
    ELSE COpenAfter(lines, k - 1) - 1

\* line k opens a code block
COpens(lines, k) ==
    CIsFence(lines[k]) /\ (~CFenceOnly(lines[k]) \/ COpenAfter(lines, k - 1) = 0)

\* C24: the cleaner takes a pair of fence lines out only when it is an empty
\* block: the first line opens a block and the very next line is a fence-only
\* line that closes it; never the closing fence of a block with content
\* together with the fence after it, never fences with lines between them
C24_OnlyEmptyBlocksRemoved ==
    (c_pc = "done") =>
        LET lines == split_lines(c_result)
        IN \A i \in CRemovedAt(c_result, 1) :
               /\ COpens(lines, CLineOf(c_result, i))
               /\ CLineOf(c_result, i) < Len(lines)
               /\ CFenceOnly(lines[CLineOf(c_result, i) + 1])

-----------------------------------------------------------------------------
(* Claims about the recursion of the marker pipeline *)

RECURSIVE deepest_call(_, _, _, _, _)

\* line 153 for the placeholder with this payload, met in a call of
\* process_special_markers at nesting depth: the depth of the deepest call
\* it leads to (depth itself when it makes no call)
deepest_nested(payload, tool_call_results, tool_call_rounds, depth) ==
    LET data == loads(payload)
        msg == tool_invocation_msg(data.v)
        found == correlated_content(msg.v, tool_call_results, tool_call_rounds)
    IN IF ~data.ok THEN depth
       ELSE IF msg.raises THEN depth
       ELSE IF found.raises THEN depth
       ELSE IF ~IsDict(JGet(data.v, K("resultDetails"), JDict(<<>>))) THEN depth
       ELSE IF strip(found.v) # <<>> /\ contains(found.v, <<TI>>)
         THEN deepest_call(found.v, 1, tool_call_results, tool_call_rounds, depth + 1)
       ELSE depth

\* The depth of the deepest call of process_special_markers made for the
\* tool placeholders of text from position from on, text being the argument
\* of a call at nesting depth.  A call deeper than MaxNesting is the one the
\* interpreter's recursion limit ends.
deepest_call(text, from, tool_call_results, tool_call_rounds, depth) ==
    LET m == span_search(text, TI, from)
    IN IF depth > MaxNesting \/ ~m.found THEN depth
       ELSE Max(deepest_nested(m.payload, tool_call_results, tool_call_rounds, depth),
                deepest_call(text, m.end + 1, tool_call_results, tool_call_rounds, depth))

\* C27: the recursion between process_special_markers and
\* format_tool_invocation_details is bounded: whatever the tool placeholders
\* of the text and the tool results are (a result that embeds the placeholder
\* of its own tool call too), no call is nested so deep that only the
\* recursion limit of the interpreter ends it
C27_RecursionBounded ==
    (m_pc = "tools") =>
        deepest_call(m_before, 1, m_ctx.results, m_ctx.rounds, 1) <= MaxNesting

-----------------------------------------------------------------------------
(* Claims about the sections and the heading links of the documents *)

\* the values the local model_display can hold when the request at position
\* i is rendered: unassigned at the first request, set by any earlier request
\* or left unassigned by all of them at a later one
PDisplaysAt(i) ==
    IF i = 1 THEN {JNull}
    ELSE { model_display_of(JGet(r, K("modelId"), EmptyStr), JNull) : r \in PRequests }

\* C28: the section parse_chat_log renders for a request depends only on the
\* fields of the request and on its position: when the response section of
\* the request at position i is about to be written, its model line is the
\* same for every value that earlier requests can have left in model_display,
\* so transcripts that agree on request i render the same section for it
C28_SectionOfOwnFields ==
    (p_fn = "parse_chat_log" /\ p_pc = "response") =>
        \A d \in PDisplaysAt(p_i) :
            model_lines(p_requests[p_i], d) = model_lines(p_requests[p_i], p_model_display)

\* the links of a text that lead to the table of contents, and the tags
\* that give it its name
TocLinksOf(text) == {k \in LinksOf(text) : TargetOf(text, k) = <<"table-of-contents">>}
TocTagsOf(text) == {q \in TagsOf(text) : NameOf(text, q) = <<"table-of-contents">>}

\* C29: whenever a link to #table-of-contents is in a document returned by
\* parse_chat_log or parse_combined_chat_logs, the tag
\* <a name="table-of-contents"> is in the document too, also when the
\* transcript has exactly one request
C29_TocLinkResolves ==
    (p_pc = "done") => (TocLinksOf(p_out) # {} => TocTagsOf(p_out) # {})

-----------------------------------------------------------------------------
(* Claims about the labels of the consolidated edits *)

\* the label lines of the consolidated block, in order
EIsLabel(line) == line # <<>> /\ line[1] \in {"# Lines ", "# Line "}
ELabels(out) == SelectSeq(EConsolidated(out), EIsLabel)

\* the merged groups of the sorted edits from the edit i on, each as the
\* pair of its first and its last index
RECURSIVE EGroups(_, _)
EGroups(sorted, i) ==
    IF i > Len(sorted) THEN <<>>
    ELSE << <<i, EGroupLast(sorted, i)>> >> \o EGroups(sorted, EGroupLast(sorted, i) + 1)

\* the greatest end line of the edits
EMaxEnd(sorted) == CHOOSE b \in {EEnd(sorted[k]) : k \in 1..Len(sorted)} :
                       \A k \in 1..Len(sorted) : EEnd(sorted[k]) <= b

\* the label is "# Lines A-B:" with A at most the start line and B at least
\* the end line of each of the edits i..j
ELabelCovers(label, sorted, i, j) ==
    \E a, b \in 0..EMaxEnd(sorted) :
        /\ label = <<"# Lines ">> \o NatDigits(a) \o <<"-">> \o NatDigits(b) \o <<":">>
        /\ \A k \in i..j : a <= EStart(sorted[k]) /\ EEnd(sorted[k]) <= b

\* C30: in the consolidated rendering of more than five edits, the label
\* "# Lines A-B:" of a merged group covers every edit merged into it: A is
\* at most the start line and B at least the end line of each edit of the
\* group
C30_LabelCoversGroup ==
    (/\ e_pc = "done" /\ e_data \notin EBadDatas
     /\ Len(EQualifying(e_data)) > 5
     /\ \A k \in 1..Len(EQualifying(e_data)) : EStart(EQualifying(e_data)[k]) > 0) =>
        LET sorted == EByStart(EQualifying(e_data))
            groups == EGroups(sorted, 1)
            labels == ELabels(e_out)
        IN /\ Len(labels) = Len(groups)
           /\ \A g \in 1..Len(groups) :
                  groups[g][1] < groups[g][2] =>
                      ELabelCovers(labels[g], sorted, groups[g][1], groups[g][2])

====
